---- MODULE Spec2Model ----
(***************************************************************************)
(* Typelib validator and reader core of girepository/gitypelib.c.          *)
(*                                                                         *)
(* The typelib is modelled as the byte buffer the C code overlays with     *)
(* packed records (little-endian, as on the x86-64 builds of GLib).  Every *)
(* validator is an operator over that buffer, translated check by check    *)
(* from its C function and threading a validation state                    *)
(*    [st, code, msg, section, ctx, oob, prefix]                           *)
(* st   : "ok" while no check has failed, "error" after g_set_error,       *)
(*        "crash" when a read left the mapped memory, "loop" when the      *)
(*        recursion re-entered a frame that is still on the call stack;    *)
(* ctx  : the ValidateContext stack (innermost name first, g_slist_prepend)*)
(* oob  : some read touched a byte at or after data + len.                 *)
(* prefix : the text prefix_with_context puts before the message, as bytes.*)
(* A read past the end of the buffer is undefined behaviour: it returns    *)
(* whatever the memory after the buffer holds (variable beyond, which the  *)
(* rest of the process may change at any time) or faults when that memory  *)
(* is not mapped.                                                          *)
(*                                                                         *)
(* size_t is 64 bits wide, so the sums of a uint32 offset and a size that  *)
(* the bounds checks compute do not wrap.  TLC's integers are 32 bits      *)
(* wide: a uint32 whose top byte is above 64 is read with that byte        *)
(* replaced by 64.  Such a value is far above the length of every buffer   *)
(* of the model before and after the replacement, it keeps its low 24 bits *)
(* (its alignment), and the code only compares it with lengths, tests its  *)
(* alignment or dereferences it.                                           *)
(***************************************************************************)
EXTENDS Integers, Sequences, FiniteSets, TLC

VARIABLES
  bytes,     \* contents of the GBytes handed to gi_typelib_new_from_bytes
  beyond,    \* mapped memory that follows the buffer (not owned by it)
  base,      \* which typelib the input was derived from
  mut,       \* how the input was derived from it
  pc,        \* "input" | "live" | "failed"
  typelib,   \* the GITypelib: NULL or [ref_count, modules, open_attempted]
  gerror,    \* GError set by gi_typelib_new_from_bytes, or NoError
  vres,      \* result of the last gi_typelib_validate call, or NoResult
  vprev,     \* result of the gi_typelib_validate call before it
  ncalls,    \* number of gi_typelib_validate calls made on the handle
  lres,      \* result of the last lookup call, or NoResult
  nlookups,  \* number of lookup calls made on the handle
  gbytes,    \* reference count of the GBytes (the caller holds one reference)
  owned,     \* references on the handle each holder owns
  upc,       \* where each holder is in gi_typelib_unref: "idle" | "release"
  closed,    \* modules g_module_close was called on, in call order
  nfreed,    \* number of g_slice_free calls made on the handle
  dlopens,   \* number of gi_typelib_do_dlopen calls made on the handle
  sres,      \* result of the last gi_typelib_symbol call, or NoResult
  nsymbols   \* number of gi_typelib_symbol calls made on the handle

\* the state of the handle's holders and of the modules
hvars == <<gbytes, owned, upc, closed, nfreed, dlopens, sres, nsymbols>>

vars ==
  <<bytes, beyond, base, mut, pc, typelib, gerror, vres, vprev, ncalls, lres, nlookups,
    gbytes, owned, upc, closed, nfreed, dlopens, sres, nsymbols>>

(***************************************************************************)
(* Bounds of the model.                                                    *)
(***************************************************************************)
\* gi_typelib_validate calls made on one handle
MaxValidate == 2
\* bytes of mapped memory after the buffer
MaxBeyond == 2
\* largest index gi_typelib_hash_search answers with
MaxHashIndex == 1
\* lookup calls made on one handle
MaxLookups == 1
\* references held on one handle at a time
MaxRefs == 3
\* gi_typelib_symbol calls made on one handle
MaxSymbols == 2

(***************************************************************************)
(* Record sizes (the G_STATIC_ASSERTs) and other program constants.        *)
(***************************************************************************)
SizeofHeader == 112
SizeofDirEntry == 12
SizeofSimpleTypeBlob == 4
SizeofArgBlob == 16
SizeofSignatureBlob == 8
SizeofCommonBlob == 8
SizeofFunctionBlob == 20
SizeofCallbackBlob == 12
SizeofInterfaceTypeBlob == 4
SizeofArrayTypeBlob == 8
SizeofParamTypeBlob == 4
SizeofErrorTypeBlob == 4
SizeofValueBlob == 12
SizeofFieldBlob == 16
SizeofRegisteredTypeBlob == 16
SizeofStructBlob == 32
SizeofEnumBlob == 24
SizeofPropertyBlob == 16
SizeofSignalBlob == 16
SizeofVFuncBlob == 20
SizeofObjectBlob == 60
SizeofInterfaceBlob == 40
SizeofConstantBlob == 24
SizeofAttributeBlob == 12
SizeofUnionBlob == 40
MAX_NAME_LEN == 2048
MajorVersion == 4
MagicLen == 16
SizeofSection == 8

\* GI_IR_MAGIC "GOBJ\nMETADATA\r\n\032"
GI_IR_MAGIC == <<71, 79, 66, 74, 10, 77, 69, 84, 65, 68, 65, 84, 65, 13, 10, 26>>

\* GITypelibBlobType
BLOB_TYPE_INVALID == 0
BLOB_TYPE_FUNCTION == 1
BLOB_TYPE_CALLBACK == 2
BLOB_TYPE_STRUCT == 3
BLOB_TYPE_BOXED == 4
BLOB_TYPE_ENUM == 5
BLOB_TYPE_FLAGS == 6
BLOB_TYPE_OBJECT == 7
BLOB_TYPE_INTERFACE == 8
BLOB_TYPE_CONSTANT == 9
BLOB_TYPE_UNION == 11

\* GITypeTag
GI_TYPE_TAG_VOID == 0
GI_TYPE_TAG_INT32 == 6
GI_TYPE_TAG_UTF8 == 13
GI_TYPE_TAG_ARRAY == 15
GI_TYPE_TAG_INTERFACE == 16
GI_TYPE_TAG_GLIST == 17
GI_TYPE_TAG_GSLIST == 18
GI_TYPE_TAG_GHASH == 19
GI_TYPE_TAG_ERROR == 20
GI_TYPE_TAG_UNICHAR == 21

\* SectionType
GI_SECTION_END == 0
GI_SECTION_DIRECTORY_INDEX == 1

\* an address far outside the buffer and the memory mapped after it
FarOffset == 2147000000

NULL == "NULL"
NoError == [code |-> "none", msg |-> "none"]
NoResult == [st |-> "none"]

(***************************************************************************)
(* Memory.  m = [b |-> bytes of the buffer, y |-> bytes mapped after it].  *)
(***************************************************************************)
Mem(b, y) == [b |-> b, y |-> y]

BufLen(m) == Len(m.b)

Mapped(m) == Len(m.b) + Len(m.y)

\* data[o]: a byte of the buffer, of the memory after it, or (unmapped) none
U8(m, o) ==
  IF o < Len(m.b) THEN m.b[o + 1]
  ELSE IF o < Mapped(m) THEN m.y[o - Len(m.b) + 1]
  ELSE 0

U16(m, o) == U8(m, o) + 256 * U8(m, o + 1)

U32(m, o) ==
  LET top == U8(m, o + 3)
  IN U16(m, o) + 65536 * U8(m, o + 2) + 16777216 * (IF top > 64 THEN 64 ELSE top)

\* bits lo .. lo+n-1 of v
Bits(v, lo, n) == (v \div (2 ^ lo)) % (2 ^ n)

(***************************************************************************)
(* Validation state.                                                       *)
(***************************************************************************)
StartState ==
  [st |-> "ok", code |-> "none", msg |-> "none", section |-> "none", ctx |-> <<>>, oob |-> FALSE,
   prefix |-> <<>>]

Fail(s, code, msg) == [s EXCEPT !.st = "error", !.code = code, !.msg = msg]

\* if (!cond) { g_set_error (code, msg); return FALSE; }
Chk(s, cond, code, msg) ==
  IF s.st # "ok" THEN s
  ELSE IF cond THEN s
  ELSE Fail(s, code, msg)

\* a read of n bytes at data + o that no bounds check precedes
Touch(m, s, o, n) ==
  IF s.st # "ok" \/ n = 0 THEN s
  ELSE IF o + n <= BufLen(m) THEN s
  ELSE IF o + n <= Mapped(m) THEN [s EXCEPT !.oob = TRUE]
  ELSE [s EXCEPT !.oob = TRUE, !.st = "crash"]

push_context(s, name) ==
  IF s.st # "ok" THEN s ELSE [s EXCEPT !.ctx = <<name>> \o s.ctx]

\* a pop that leaves the stack as it is
pop_context_none(s) == s

\* g_assert (ctx->context_stack != NULL)
pop_context(s) ==
  IF s.st # "ok" THEN s
  ELSE IF s.ctx = <<>> THEN [s EXCEPT !.st = "crash", !.msg = "assertion failed: context_stack != NULL"]
  ELSE [s EXCEPT !.ctx = Tail(s.ctx)]

is_aligned(offset) == offset % 4 = 0

(***************************************************************************)
(* Strings.                                                                *)
(***************************************************************************)
\* G_CSET_a_2_z G_CSET_A_2_Z G_CSET_DIGITS "-_"
IsNameChar(c) ==
  \/ c \in 97..122
  \/ c \in 65..90
  \/ c \in 48..57
  \/ c = 45
  \/ c = 95

Min(S) == CHOOSE x \in S : \A z \in S : x <= z

\* memchr (data + o, '\0', ...) over the bytes o .. last: the offset of the
\* first NUL byte, or -1 (scanned sixteen bytes at a time)
RECURSIVE memchr0(_, _, _)
memchr0(m, o, last) ==
  IF o > last THEN -1
  ELSE LET hi == IF o + 15 < last THEN o + 15 ELSE last
           nuls == {i \in o..hi : U8(m, i) = 0}
       IN IF nuls # {} THEN Min(nuls) ELSE memchr0(m, hi + 1, last)

\* the C string at data + o, as far as the mapped memory goes
CStr(m, o) ==
  LET z == memchr0(m, o, Mapped(m) - 1)
      end == IF z < 0 THEN Mapped(m) ELSE z
  IN [i \in 1..(IF end > o THEN end - o ELSE 0) |-> U8(m, o + i - 1)]

\* gi_typelib_get_string: (const char *) &typelib->data[offset]
gi_typelib_get_string(m, offset) == CStr(m, offset)

\* get_string, then memchr (name, '\0', MAX_NAME_LEN), strspn and strlen
validate_name(m, s, what, offset) ==
  LET s1 == Chk(s, ~(BufLen(m) < offset), "INVALID",
                "Buffer is too short while looking up name")
      last == offset + MAX_NAME_LEN - 1
      z == memchr0(m, offset, IF last < Mapped(m) THEN last ELSE Mapped(m) - 1)
      s2 == Touch(m, s1, offset, IF z < 0 THEN MAX_NAME_LEN ELSE z - offset + 1)
      s3 == Chk(s2, z >= 0, "INVALID", "The " \o what \o " is too long")
      s4 == Chk(s3, \A i \in offset..(z - 1) : IsNameChar(U8(m, i)), "INVALID",
                "The " \o what \o " contains invalid characters")
  IN s4

(***************************************************************************)
(* Header.                                                                 *)
(***************************************************************************)
\* strncmp (data + o, lit, n) == 0, lit a string literal (NUL after its bytes)
strncmp_eq(m, o, lit, n) ==
  LET L(i) == IF i < Len(lit) THEN lit[i + 1] ELSE 0
      diff == {i \in 0..(n - 1) : U8(m, o + i) # L(i)}
      nul == {i \in 0..(n - 1) : U8(m, o + i) = 0 /\ L(i) = 0}
  IN \/ diff = {}
     \/ nul # {} /\ Min(nul) < Min(diff)

\* the header's *_blob_size fields agree with the compiled-in sizes
BlobSizesMatch(m) ==
  /\ U16(m, 60) = SizeofDirEntry
  /\ U16(m, 62) = SizeofFunctionBlob
  /\ U16(m, 64) = SizeofCallbackBlob
  /\ U16(m, 66) = SizeofSignalBlob
  /\ U16(m, 68) = SizeofVFuncBlob
  /\ U16(m, 70) = SizeofArgBlob
  /\ U16(m, 72) = SizeofPropertyBlob
  /\ U16(m, 74) = SizeofFieldBlob
  /\ U16(m, 76) = SizeofValueBlob
  /\ U16(m, 80) = SizeofConstantBlob
  /\ U16(m, 78) = SizeofAttributeBlob
  /\ U16(m, 84) = SizeofSignatureBlob
  /\ U16(m, 86) = SizeofEnumBlob
  /\ U16(m, 88) = SizeofStructBlob
  /\ U16(m, 90) = SizeofObjectBlob
  /\ U16(m, 92) = SizeofInterfaceBlob
  /\ U16(m, 94) = SizeofUnionBlob

\* Header fields
hdr_major_version(m) == U8(m, 16)
hdr_n_entries(m) == U16(m, 20)
hdr_n_local_entries(m) == U16(m, 22)
hdr_directory(m) == U32(m, 24)
hdr_n_attributes(m) == U32(m, 28)
hdr_attributes(m) == U32(m, 32)
hdr_size(m) == U32(m, 40)
hdr_namespace(m) == U32(m, 44)
hdr_shared_library(m) == U32(m, 52)
hdr_c_prefix(m) == U32(m, 56)
hdr_entry_blob_size(m) == U16(m, 60)
hdr_field_blob_size(m) == U16(m, 74)
hdr_sections(m) == U32(m, 96)

\* check_header_length reporting the short buffer as a header error
check_header_length_as_header(m, s) ==
  Chk(s, ~(BufLen(m) < SizeofHeader), "INVALID_HEADER",
      "The specified typelib length is too short")

\* check_header_magic comparing one byte less
check_header_magic_short(m, s) ==
  Chk(s, strncmp_eq(m, 0, GI_IR_MAGIC, MagicLen - 1), "INVALID_HEADER",
      "Invalid magic header")

\* check_header_size left out
check_header_size_skipped(m, s) == s

\* check_header_size counting one byte more than the buffer holds
check_header_size_off_by_one(m, s) ==
  Chk(s, hdr_size(m) = BufLen(m) + 1, "INVALID_HEADER", "Typelib size does not match")

\* if (len < sizeof (Header)) of validate_header_basic
check_header_length(m, s) ==
  Chk(s, ~(BufLen(m) < SizeofHeader), "INVALID", "The specified typelib length is too short")

\* if (strncmp (header->magic, GI_IR_MAGIC, 16) != 0) of validate_header_basic
check_header_magic(m, s) ==
  Chk(s, strncmp_eq(m, 0, GI_IR_MAGIC, MagicLen), "INVALID_HEADER", "Invalid magic header")

\* if (header->size != len) of validate_header_basic
check_header_size(m, s) ==
  Chk(s, hdr_size(m) = BufLen(m), "INVALID_HEADER", "Typelib size does not match")

\* the basic header validation cut down to the test of the length
validate_header_basic_length_only(m, s) == check_header_length(m, s)

validate_header_basic(m, s) ==
  LET s1 == check_header_length(m, s)
      s2 == check_header_magic(m, s1)
      s3 == Chk(s2, hdr_major_version(m) = MajorVersion, "INVALID_HEADER",
                "Typelib version mismatch")
      s4 == Chk(s3, ~(hdr_n_entries(m) < hdr_n_local_entries(m)), "INVALID_HEADER",
                "Inconsistent entry counts")
      s5 == check_header_size(m, s4)
      s6 == Chk(s5, BlobSizesMatch(m), "INVALID_HEADER", "Blob size mismatch")
      s7 == Chk(s6, is_aligned(hdr_directory(m)), "INVALID_HEADER",
                "Misaligned directory")
      s8 == Chk(s7, is_aligned(hdr_attributes(m)), "INVALID_HEADER",
                "Misaligned attributes")
      s9 == Chk(s8, ~(hdr_attributes(m) = 0 /\ hdr_n_attributes(m) > 0),
                "INVALID_HEADER", "Wrong number of attributes")
  IN s9

validate_header(m, s) ==
  validate_name(m, validate_header_basic(m, s), "namespace", hdr_namespace(m))

(***************************************************************************)
(* Directory entries.                                                      *)
(***************************************************************************)
\* gi_typelib_get_dir_entry: offset of entry index (1-based).  index 0 makes
\* (index - 1u) * entry_blob_size wrap to -entry_blob_size.
gi_typelib_get_dir_entry(m, index) ==
  IF index >= 1 THEN hdr_directory(m) + (index - 1) * hdr_entry_blob_size(m)
  ELSE IF hdr_directory(m) >= hdr_entry_blob_size(m)
    THEN hdr_directory(m) - hdr_entry_blob_size(m)
  ELSE FarOffset

\* DirEntry fields of the entry at offset e
entry_blob_type(m, e) == U16(m, e)
entry_local(m, e) == Bits(U16(m, e + 2), 0, 1) = 1
entry_name(m, e) == U32(m, e + 4)
entry_offset(m, e) == U32(m, e + 8)

get_dir_entry_checked(m, s, index) ==
  LET s1 == Chk(s, ~(index = 0 \/ index > hdr_n_entries(m)), "INVALID_BLOB",
                "Invalid directory index")
      s2 == Chk(s1, ~(BufLen(m) < gi_typelib_get_dir_entry(m, index) + SizeofDirEntry),
                "INVALID", "The buffer is too short")
  IN s2

(***************************************************************************)
(* Type blobs.                                                             *)
(***************************************************************************)
GI_TYPE_TAG_IS_BASIC(tag) == tag < GI_TYPE_TAG_ARRAY \/ tag = GI_TYPE_TAG_UNICHAR

\* SimpleTypeBlob at offset o: flags.reserved, flags.reserved2 both zero
simple_is_basic(m, o) == U8(m, o) = 0 /\ U16(m, o + 1) = 0
simple_pointer(m, o) == Bits(U8(m, o + 3), 0, 1)
simple_tag(m, o) == Bits(U8(m, o + 3), 3, 5)
simple_offset(m, o) == U32(m, o)

\* first byte of InterfaceTypeBlob, ArrayTypeBlob, ParamTypeBlob, ErrorTypeBlob
complex_pointer(m, o) == Bits(U8(m, o), 0, 1)
complex_tag(m, o) == Bits(U8(m, o), 3, 5)

RECURSIVE validate_type_blob(_, _, _, _)
RECURSIVE validate_param_types(_, _, _, _, _, _)

validate_array_type_blob(m, s, offset, frames) ==
  validate_type_blob(m, s, offset + 4, frames)

validate_iface_type_blob(m, s, offset) ==
  LET s1 == Touch(m, s, offset + 2, 2)
  IN get_dir_entry_checked(m, s1, U16(m, offset + 2))

\* for (i = 0; i < n_params; i++) validate_type_blob (offset + sizeof (ParamTypeBlob) + i * sizeof (SimpleTypeBlob))
validate_param_types(m, s, offset, i, n_params, frames) ==
  IF i >= n_params \/ s.st # "ok" THEN s
  ELSE validate_param_types(m,
         validate_type_blob(m, s, offset + SizeofParamTypeBlob + i * SizeofSimpleTypeBlob, frames),
         offset, i + 1, n_params, frames)

validate_param_type_blob(m, s, offset, n_params, frames) ==
  LET s1 == Touch(m, s, offset, 1)
      s2 == Chk(s1, complex_pointer(m, offset) # 0, "INVALID_BLOB",
                "Pointer type exected for tag")
      s3 == Touch(m, s2, offset + 2, 2)
      s4 == Chk(s3, U16(m, offset + 2) = n_params, "INVALID_BLOB",
                "Parameter type number mismatch")
  IN validate_param_types(m, s4, offset, 0, n_params, frames)

validate_error_type_blob(m, s, offset) ==
  LET s1 == Touch(m, s, offset, 1)
  IN Chk(s1, complex_pointer(m, offset) # 0, "INVALID_BLOB",
         "Pointer type exected for tag")

\* frames: the offsets of the validate_type_blob calls that have not returned.
\* The call reads nothing but the buffer and its offset argument, so a call
\* made with an offset that is already in frames repeats that frame for ever.
validate_type_blob(m, s, offset, frames) ==
  IF s.st # "ok" THEN s
  ELSE IF offset \in frames THEN [s EXCEPT !.st = "loop"]
  ELSE
    LET inner == frames \cup {offset}
        s1 == Touch(m, s, offset, SizeofSimpleTypeBlob)
        tag == simple_tag(m, offset)
        s2 == Chk(s1, GI_TYPE_TAG_IS_BASIC(tag), "INVALID_BLOB",
                  "Invalid non-basic tag in simple type")
        s3 == Chk(s2, ~(tag >= GI_TYPE_TAG_UTF8 /\ tag # GI_TYPE_TAG_UNICHAR
                        /\ simple_pointer(m, offset) = 0),
                  "INVALID_BLOB", "Pointer type exected for tag")
        to == simple_offset(m, offset)
        s4 == Touch(m, s1, to, 1)
        itag == complex_tag(m, to)
    IN IF s1.st # "ok" THEN s1
       ELSE IF simple_is_basic(m, offset) THEN s3
       ELSE IF s4.st # "ok" THEN s4
       ELSE IF itag = GI_TYPE_TAG_ARRAY THEN validate_array_type_blob(m, s4, to, inner)
       ELSE IF itag = GI_TYPE_TAG_INTERFACE THEN validate_iface_type_blob(m, s4, to)
       ELSE IF itag \in {GI_TYPE_TAG_GLIST, GI_TYPE_TAG_GSLIST}
         THEN validate_param_type_blob(m, s4, to, 1, inner)
       ELSE IF itag = GI_TYPE_TAG_GHASH THEN validate_param_type_blob(m, s4, to, 2, inner)
       ELSE IF itag = GI_TYPE_TAG_ERROR THEN validate_error_type_blob(m, s4, to)
       ELSE Fail(s4, "INVALID_BLOB", "Wrong tag in complex type")

(***************************************************************************)
(* Signatures, functions, callbacks.                                       *)
(***************************************************************************)
validate_arg_blob(m, s, offset) ==
  LET s1 == Chk(s, ~(BufLen(m) < offset + SizeofArgBlob), "INVALID",
                "The buffer is too short")
      s2 == validate_name(m, s1, "argument", U32(m, offset))
  IN validate_type_blob(m, s2, offset + 12, {})

\* for (i = 0; i < blob->n_arguments; i++) validate_arg_blob (...)
RECURSIVE validate_args(_, _, _, _, _)
validate_args(m, s, offset, i, n) ==
  IF i >= n \/ s.st # "ok" THEN s
  ELSE validate_args(m,
         validate_arg_blob(m, s, offset + SizeofSignatureBlob + i * SizeofArgBlob),
         offset, i + 1, n)

validate_signature_blob(m, s, offset) ==
  LET s1 == Chk(s, ~(BufLen(m) < offset + SizeofSignatureBlob), "INVALID",
                "The buffer is too short")
  IN validate_args(m,
       IF U32(m, offset) # 0 THEN validate_type_blob(m, s1, offset, {}) ELSE s1,
       offset, 0, U16(m, offset + 6))

\* NULL (an error) or the SimpleTypeBlob of the return type, which is at offset
return_type_from_signature(m, s, offset) ==
  LET s1 == Chk(s, ~(BufLen(m) < offset + SizeofSignatureBlob), "INVALID",
                "The buffer is too short")
  IN Chk(s1, U32(m, offset) # 0, "INVALID", "No return type found in signature")

\* NULL (an error) or the blob at simple->offset
\* get_type_blob without its check that the type is not basic
get_type_blob_any(m, s, simple) ==
  LET s1 == Chk(s, simple_offset(m, simple) # 0, "INVALID", "Expected blob for type")
  IN Chk(s1, ~(BufLen(m) < simple_offset(m, simple) + SizeofCommonBlob), "INVALID",
         "The buffer is too short")

get_type_blob(m, s, simple) ==
  LET s1 == Chk(s, simple_offset(m, simple) # 0, "INVALID", "Expected blob for type")
      s2 == Chk(s1, ~simple_is_basic(m, simple), "INVALID",
                "Expected non-basic type but got")
  IN Chk(s2, ~(BufLen(m) < simple_offset(m, simple) + SizeofCommonBlob), "INVALID",
         "The buffer is too short")

\* FunctionBlob flags (the uint16 at offset + 2)
fn_setter(m, o) == Bits(U16(m, o + 2), 1, 1) = 1
fn_getter(m, o) == Bits(U16(m, o + 2), 2, 1) = 1
fn_constructor(m, o) == Bits(U16(m, o + 2), 3, 1) = 1
fn_wraps_vfunc(m, o) == Bits(U16(m, o + 2), 4, 1) = 1
fn_index(m, o) == Bits(U16(m, o + 2), 6, 10)

\* the constructor's return type left unchecked
validate_constructor_return_skipped(m, s, offset, container_type) == s

\* if (blob->constructor) { ... } of validate_function_blob at offset
validate_constructor_return(m, s, offset, container_type) ==
  LET sig == U32(m, offset + 12)
      s1 == return_type_from_signature(m, s, sig)
      s2 == get_type_blob(m, s1, sig)
      s3 == Chk(s2, ~(complex_tag(m, simple_offset(m, sig)) # GI_TYPE_TAG_INTERFACE
                      /\ container_type \in {BLOB_TYPE_OBJECT, BLOB_TYPE_INTERFACE}),
                "INVALID", "Invalid return type for constructor")
  IN IF s.st = "ok" /\ fn_constructor(m, offset) THEN s3 ELSE s

validate_function_blob(m, s, offset, container_type) ==
  LET s1 == Chk(s, ~(BufLen(m) < offset + SizeofFunctionBlob), "INVALID",
                "The buffer is too short")
      s2 == Chk(s1, U16(m, offset) = BLOB_TYPE_FUNCTION, "INVALID_BLOB",
                "Wrong blob type, expected function")
      s3 == validate_name(m, s2, "function", U32(m, offset + 4))
      s4 == push_context(s3, gi_typelib_get_string(m, U32(m, offset + 4)))
      s5 == validate_name(m, s4, "function symbol", U32(m, offset + 8))
      s6 == Chk(s5, fn_constructor(m, offset) =>
                      container_type \in {BLOB_TYPE_BOXED, BLOB_TYPE_STRUCT, BLOB_TYPE_UNION,
                                          BLOB_TYPE_OBJECT, BLOB_TYPE_INTERFACE},
                "INVALID_BLOB", "Constructor not allowed")
      s7 == Chk(s6, (fn_setter(m, offset) \/ fn_getter(m, offset) \/ fn_wraps_vfunc(m, offset)) =>
                      container_type \in {BLOB_TYPE_OBJECT, BLOB_TYPE_INTERFACE},
                "INVALID_BLOB", "Setter, getter or wrapper not allowed")
      s8 == Chk(s7, fn_index(m, offset) # 0 =>
                      (fn_setter(m, offset) \/ fn_getter(m, offset) \/ fn_wraps_vfunc(m, offset)),
                "INVALID_BLOB", "Must be setter, getter or wrapper")
  IN pop_context(
       validate_constructor_return(m,
         validate_signature_blob(m, s8, U32(m, offset + 12)),
         offset, container_type))

validate_callback_blob(m, s, offset) ==
  LET s1 == Chk(s, ~(BufLen(m) < offset + SizeofCallbackBlob), "INVALID",
                "The buffer is too short")
      s2 == Chk(s1, U16(m, offset) = BLOB_TYPE_CALLBACK, "INVALID_BLOB", "Wrong blob type")
      s3 == validate_name(m, s2, "callback", U32(m, offset + 4))
      s4 == push_context(s3, gi_typelib_get_string(m, U32(m, offset + 4)))
  IN pop_context(validate_signature_blob(m, s4, U32(m, offset + 8)))

(***************************************************************************)
(* Constants, values, fields, properties, signals, vfuncs.                 *)
(***************************************************************************)
\* value_size[] of validate_constant_blob, indexed by type tag
value_size(tag) ==
  CASE tag \in {1, 6, 7, 21} -> 4
    [] tag \in {2, 3} -> 1
    [] tag \in {4, 5} -> 2
    [] tag \in {8, 9} -> 8
    [] tag = 10 -> 4
    [] tag = 11 -> 8
    [] OTHER -> 0

\* if (type->flags.reserved == 0 && type->flags.reserved2 == 0) { ... } of
\* validate_constant_blob
validate_constant_size(m, s, offset) ==
  LET tag == simple_tag(m, offset + 8)
      s1 == Chk(s, tag # GI_TYPE_TAG_VOID, "INVALID_BLOB", "Constant value type void")
      s2 == Chk(s1, ~(value_size(tag) # 0 /\ U32(m, offset + 12) # value_size(tag)),
                "INVALID_BLOB", "Constant value size mismatch")
  IN IF s.st = "ok" /\ simple_is_basic(m, offset + 8) THEN s2 ELSE s

validate_constant_blob(m, s, offset) ==
  LET s1 == Chk(s, ~(BufLen(m) < offset + SizeofConstantBlob), "INVALID",
                "The buffer is too short")
      s2 == Chk(s1, U16(m, offset) = BLOB_TYPE_CONSTANT, "INVALID_BLOB", "Wrong blob type")
      s3 == validate_name(m, s2, "constant", U32(m, offset + 4))
  IN validate_constant_size(m,
       Chk(validate_type_blob(m, s3, offset + 8, {}), is_aligned(U32(m, offset + 16)),
           "INVALID_BLOB", "Misaligned constant value"),
       offset)

validate_value_blob(m, s, offset) ==
  LET s1 == Chk(s, ~(BufLen(m) < offset + SizeofValueBlob), "INVALID",
                "The buffer is too short")
  IN validate_name(m, s1, "value", U32(m, offset + 4))

\* FieldBlob.has_embedded_type
field_has_embedded_type(m, o) == Bits(U8(m, o + 4), 2, 1) = 1

validate_field_blob(m, s, offset) ==
  LET s1 == Chk(s, ~(BufLen(m) < offset + SizeofFieldBlob), "INVALID",
                "The buffer is too short")
      s2 == validate_name(m, s1, "field", U32(m, offset))
  IN IF s2.st # "ok" THEN s2
     ELSE IF field_has_embedded_type(m, offset)
       THEN validate_callback_blob(m, s2, offset + hdr_field_blob_size(m))
     ELSE validate_type_blob(m, s2, offset + 12, {})

validate_property_blob(m, s, offset) ==
  LET s1 == Chk(s, ~(BufLen(m) < offset + SizeofPropertyBlob), "INVALID",
                "The buffer is too short")
      s2 == validate_name(m, s1, "property", U32(m, offset))
  IN validate_type_blob(m, s2, offset + 12, {})

\* n_signals of the container: ObjectBlob.n_signals or InterfaceBlob.n_signals
container_n_signals(m, c) ==
  IF U16(m, c) = BLOB_TYPE_OBJECT THEN U16(m, c + 28) ELSE U16(m, c + 24)

container_n_vfuncs(m, c) ==
  IF U16(m, c) = BLOB_TYPE_OBJECT THEN U16(m, c + 30) ELSE U16(m, c + 26)

\* SignalBlob flags (the uint16 at offset)
signal_run_first(m, o) == Bits(U16(m, o), 1, 1)
signal_run_last(m, o) == Bits(U16(m, o), 2, 1)
signal_run_cleanup(m, o) == Bits(U16(m, o), 3, 1)
signal_has_class_closure(m, o) == Bits(U16(m, o), 8, 1) = 1

\* the run flags taken as set when any one of them is
signal_run_flags_any(m, o) ==
  IF signal_run_first(m, o) + signal_run_last(m, o) + signal_run_cleanup(m, o) > 0
  THEN 1 ELSE 0

\* (blob->run_first != 0) + (blob->run_last != 0) + (blob->run_cleanup != 0)
signal_run_flags(m, o) ==
  signal_run_first(m, o) + signal_run_last(m, o) + signal_run_cleanup(m, o)

validate_signal_blob(m, s, offset, container_offset) ==
  LET s1 == Chk(s, ~(BufLen(m) < offset + SizeofSignalBlob), "INVALID",
                "The buffer is too short")
      s2 == validate_name(m, s1, "signal", U32(m, offset + 4))
      s3 == Chk(s2, signal_run_flags(m, offset) = 1,
                "INVALID_BLOB", "Invalid signal run flags")
      s4 == Chk(s3, signal_has_class_closure(m, offset) =>
                      ~(U16(m, offset + 2) >= container_n_signals(m, container_offset)),
                "INVALID_BLOB", "Invalid class closure index")
  IN validate_signature_blob(m, s4, U32(m, offset + 12))

\* VFuncBlob.class_closure
vfunc_class_closure(m, o) == Bits(U16(m, o + 4), 3, 1)

validate_vfunc_blob(m, s, offset, container_offset) ==
  LET s1 == Chk(s, ~(BufLen(m) < offset + SizeofVFuncBlob), "INVALID",
                "The buffer is too short")
      s2 == validate_name(m, s1, "vfunc", U32(m, offset))
      s3 == Chk(s2, vfunc_class_closure(m, offset) # 0 =>
                      ~(vfunc_class_closure(m, offset) >= container_n_vfuncs(m, container_offset)),
                "INVALID_BLOB", "Invalid class closure index")
  IN validate_signature_blob(m, s3, U32(m, offset + 16))

(***************************************************************************)
(* Loops over the trailing arrays of a record.  Each takes the offset of   *)
(* element i and stops at the first failure.                               *)
(***************************************************************************)
RECURSIVE validate_fields(_, _, _, _, _)
RECURSIVE fields_end(_, _, _, _)
RECURSIVE count_field_callbacks(_, _, _, _)
RECURSIVE validate_functions(_, _, _, _, _, _)
RECURSIVE validate_values(_, _, _, _, _)
RECURSIVE validate_properties(_, _, _, _, _)
RECURSIVE validate_signals(_, _, _, _, _, _)
RECURSIVE validate_vfuncs(_, _, _, _, _, _)
RECURSIVE validate_constants(_, _, _, _, _)

\* the field walk: sizeof (FieldBlob), plus sizeof (CallbackBlob) after a
\* field with has_embedded_type
validate_fields(m, s, offset, i, n) ==
  IF i >= n \/ s.st # "ok" THEN s
  ELSE validate_fields(m, validate_field_blob(m, s, offset),
         offset + SizeofFieldBlob
           + (IF field_has_embedded_type(m, offset) THEN SizeofCallbackBlob ELSE 0),
         i + 1, n)

\* the offset the field walk ends at
fields_end(m, offset, i, n) ==
  IF i >= n THEN offset
  ELSE fields_end(m,
         offset + SizeofFieldBlob
           + (IF field_has_embedded_type(m, offset) THEN SizeofCallbackBlob ELSE 0),
         i + 1, n)

\* n_field_callbacks++ done for every field, callback or not
count_field_callbacks_all(m, offset, i, n) == n - i

\* n_field_callbacks as validate_object_blob counts it
count_field_callbacks(m, offset, i, n) ==
  IF i >= n THEN 0
  ELSE IF field_has_embedded_type(m, offset)
    THEN 1 + count_field_callbacks(m, offset + SizeofFieldBlob + SizeofCallbackBlob, i + 1, n)
  ELSE count_field_callbacks(m, offset + SizeofFieldBlob, i + 1, n)

validate_functions(m, s, offset, i, n, container_type) ==
  IF i >= n \/ s.st # "ok" THEN s
  ELSE validate_functions(m, validate_function_blob(m, s, offset, container_type),
         offset + SizeofFunctionBlob, i + 1, n, container_type)

validate_values(m, s, offset, i, n) ==
  IF i >= n \/ s.st # "ok" THEN s
  ELSE validate_values(m, validate_value_blob(m, s, offset),
         offset + SizeofValueBlob, i + 1, n)

validate_properties(m, s, offset, i, n) ==
  IF i >= n \/ s.st # "ok" THEN s
  ELSE validate_properties(m, validate_property_blob(m, s, offset),
         offset + SizeofPropertyBlob, i + 1, n)

validate_signals(m, s, offset, i, n, container_offset) ==
  IF i >= n \/ s.st # "ok" THEN s
  ELSE validate_signals(m, validate_signal_blob(m, s, offset, container_offset),
         offset + SizeofSignalBlob, i + 1, n, container_offset)

validate_vfuncs(m, s, offset, i, n, container_offset) ==
  IF i >= n \/ s.st # "ok" THEN s
  ELSE validate_vfuncs(m, validate_vfunc_blob(m, s, offset, container_offset),
         offset + SizeofVFuncBlob, i + 1, n, container_offset)

validate_constants(m, s, offset, i, n) ==
  IF i >= n \/ s.st # "ok" THEN s
  ELSE validate_constants(m, validate_constant_blob(m, s, offset),
         offset + SizeofConstantBlob, i + 1, n)

(***************************************************************************)
(* Struct, enum, object, interface, union.                                 *)
(***************************************************************************)
\* RegisteredTypeBlob.unregistered
blob_unregistered(m, o) == Bits(U16(m, o + 2), 1, 1) = 1

validate_struct_blob(m, s, offset, blob_type) ==
  LET s1 == Chk(s, ~(BufLen(m) < offset + SizeofStructBlob), "INVALID",
                "The buffer is too short")
      s2 == Chk(s1, U16(m, offset) = blob_type, "INVALID_BLOB", "Wrong blob type")
      s3 == validate_name(m, s2, "struct", U32(m, offset + 4))
      s4 == push_context(s3, gi_typelib_get_string(m, U32(m, offset + 4)))
      s5 == IF ~blob_unregistered(m, offset)
              THEN validate_name(m, validate_name(m, s4, "boxed", U32(m, offset + 8)),
                                 "boxed", U32(m, offset + 12))
              ELSE Chk(s4, ~(U32(m, offset + 8) # 0 \/ U32(m, offset + 12) # 0),
                       "INVALID_BLOB", "Gtype data in struct")
      n_fields == U16(m, offset + 20)
      n_methods == U16(m, offset + 22)
      s6 == Chk(s5, ~(BufLen(m) < offset + SizeofStructBlob + n_fields * SizeofFieldBlob
                                     + n_methods * SizeofFunctionBlob),
                "INVALID", "The buffer is too short")
  IN pop_context(
       validate_functions(m,
         validate_fields(m, s6, offset + SizeofStructBlob, 0, n_fields),
         fields_end(m, offset + SizeofStructBlob, 0, n_fields), 0, n_methods, blob_type))

validate_enum_blob(m, s, offset, blob_type) ==
  LET s1 == Chk(s, ~(BufLen(m) < offset + SizeofEnumBlob), "INVALID",
                "The buffer is too short")
      s2 == Chk(s1, U16(m, offset) = blob_type, "INVALID_BLOB", "Wrong blob type")
      s3 == IF ~blob_unregistered(m, offset)
              THEN validate_name(m, validate_name(m, s2, "enum", U32(m, offset + 8)),
                                 "enum", U32(m, offset + 12))
              ELSE Chk(s2, ~(U32(m, offset + 8) # 0 \/ U32(m, offset + 12) # 0),
                       "INVALID_BLOB", "Gtype data in unregistered enum")
      s4 == validate_name(m, s3, "enum", U32(m, offset + 4))
      n_values == U16(m, offset + 16)
      n_methods == U16(m, offset + 18)
      s5 == Chk(s4, ~(BufLen(m) < offset + SizeofEnumBlob + n_values * SizeofValueBlob
                                     + n_methods * SizeofFunctionBlob),
                "INVALID", "The buffer is too short")
      s6 == push_context(s5, gi_typelib_get_string(m, U32(m, offset + 4)))
  IN pop_context(
       validate_functions(m,
         validate_values(m, s6, offset + SizeofEnumBlob, 0, n_values),
         offset + SizeofEnumBlob + n_values * SizeofValueBlob, 0, n_methods, BLOB_TYPE_ENUM))

\* for (i = 0; i < blob->n_interfaces; i++, offset2 += 2) of validate_object_blob
RECURSIVE validate_object_interfaces(_, _, _, _, _)
validate_object_interfaces(m, s, offset2, i, n) ==
  IF i >= n \/ s.st # "ok" THEN s
  ELSE
    LET iface == U16(m, offset2)
        s1 == Chk(s, ~(iface = 0 \/ iface > hdr_n_entries(m)), "INVALID_BLOB",
                  "Invalid interface index")
        s2 == get_dir_entry_checked(m, s1, iface)
        e == gi_typelib_get_dir_entry(m, iface)
        s3 == Chk(s2, ~(entry_blob_type(m, e) # BLOB_TYPE_INTERFACE
                        /\ (entry_local(m, e) \/ entry_blob_type(m, e) # 0)),
                  "INVALID_BLOB", "Not an interface")
    IN validate_object_interfaces(m, s3, offset2 + 2, i + 1, n)

\* the parent test with every foreign entry let through
validate_object_parent_foreign(m, s, parent) ==
  LET s1 == Chk(s, ~(parent > hdr_n_entries(m)), "INVALID_BLOB", "Invalid parent index")
      s2 == get_dir_entry_checked(m, s1, parent)
      e == gi_typelib_get_dir_entry(m, parent)
      s3 == Chk(s2, ~(entry_blob_type(m, e) # BLOB_TYPE_OBJECT /\ entry_local(m, e)),
                "INVALID_BLOB", "Parent not object")
  IN IF s1.st = "ok" /\ parent # 0 THEN s3 ELSE s1

validate_object_parent(m, s, parent) ==
  LET s1 == Chk(s, ~(parent > hdr_n_entries(m)), "INVALID_BLOB", "Invalid parent index")
      s2 == get_dir_entry_checked(m, s1, parent)
      e == gi_typelib_get_dir_entry(m, parent)
      s3 == Chk(s2, ~(entry_blob_type(m, e) # BLOB_TYPE_OBJECT
                      /\ (entry_local(m, e) \/ entry_blob_type(m, e) # 0)),
                "INVALID_BLOB", "Parent not object")
  IN IF s1.st = "ok" /\ parent # 0 THEN s3 ELSE s1

validate_object_gtype_struct(m, s, gtype_struct) ==
  LET s1 == get_dir_entry_checked(m, s, gtype_struct)
      e == gi_typelib_get_dir_entry(m, gtype_struct)
      s2 == Chk(s1, ~(entry_blob_type(m, e) # BLOB_TYPE_STRUCT /\ entry_local(m, e)),
                "INVALID_BLOB", "Class struct invalid type or not local")
  IN IF gtype_struct # 0 THEN s2 ELSE s

validate_object_blob(m, s, offset) ==
  LET s1 == Chk(s, ~(BufLen(m) < offset + SizeofObjectBlob), "INVALID",
                "The buffer is too short")
      s2 == Chk(s1, U16(m, offset) = BLOB_TYPE_OBJECT, "INVALID_BLOB", "Wrong blob type")
      s3 == validate_name(m, s2, "object", U32(m, offset + 8))
      s4 == validate_name(m, s3, "object", U32(m, offset + 12))
      s5 == validate_name(m, s4, "object", U32(m, offset + 4))
      s6 == validate_object_parent(m, s5, U16(m, offset + 16))
      s7 == validate_object_gtype_struct(m, s6, U16(m, offset + 18))
      n_interfaces == U16(m, offset + 20)
      n_fields == U16(m, offset + 22)
      n_properties == U16(m, offset + 24)
      n_methods == U16(m, offset + 26)
      n_signals == U16(m, offset + 28)
      n_vfuncs == U16(m, offset + 30)
      n_constants == U16(m, offset + 32)
      s8 == Chk(s7, ~(BufLen(m) < offset + SizeofObjectBlob
                        + (n_interfaces + (n_interfaces % 2)) * 2
                        + n_fields * SizeofFieldBlob
                        + n_properties * SizeofPropertyBlob
                        + n_methods * SizeofFunctionBlob
                        + n_signals * SizeofSignalBlob
                        + n_vfuncs * SizeofVFuncBlob
                        + n_constants * SizeofConstantBlob),
                "INVALID", "The buffer is too short")
      o_ifaces == offset + SizeofObjectBlob
      s9 == validate_object_interfaces(m, s8, o_ifaces, 0, n_interfaces)
      o_fields == o_ifaces + 2 * n_interfaces + 2 * (n_interfaces % 2)
      s10 == push_context(s9, gi_typelib_get_string(m, U32(m, offset + 4)))
      o_props == fields_end(m, o_fields, 0, n_fields)
      o_methods == o_props + n_properties * SizeofPropertyBlob
      o_signals == o_methods + n_methods * SizeofFunctionBlob
      o_vfuncs == o_signals + n_signals * SizeofSignalBlob
      o_constants == o_vfuncs + n_vfuncs * SizeofVFuncBlob
  IN pop_context(
       validate_constants(m,
         validate_vfuncs(m,
           validate_signals(m,
             validate_functions(m,
               validate_properties(m,
                 Chk(validate_fields(m, s10, o_fields, 0, n_fields),
                     U16(m, offset + 34) = count_field_callbacks(m, o_fields, 0, n_fields),
                     "INVALID_BLOB", "Incorrect number of field callbacks"),
                 o_props, 0, n_properties),
               o_methods, 0, n_methods, BLOB_TYPE_OBJECT),
             o_signals, 0, n_signals, offset),
           o_vfuncs, 0, n_vfuncs, offset),
         o_constants, 0, n_constants))

\* for (i = 0; i < blob->n_prerequisites; i++, offset2 += 2) of validate_interface_blob
RECURSIVE validate_prerequisites(_, _, _, _, _)
validate_prerequisites(m, s, offset2, i, n) ==
  IF i >= n \/ s.st # "ok" THEN s
  ELSE
    LET req == U16(m, offset2)
        s1 == Chk(s, ~(req = 0 \/ req > hdr_n_entries(m)), "INVALID_BLOB",
                  "Invalid prerequisite index")
        e == gi_typelib_get_dir_entry(m, req)
        s2 == Touch(m, s1, e, 4)
        s3 == Chk(s2, ~(entry_blob_type(m, e) # BLOB_TYPE_INTERFACE
                        /\ entry_blob_type(m, e) # BLOB_TYPE_OBJECT
                        /\ (entry_local(m, e) \/ entry_blob_type(m, e) # 0)),
                  "INVALID_BLOB", "Not an interface or object")
    IN validate_prerequisites(m, s3, offset2 + 2, i + 1, n)

validate_interface_blob(m, s, offset) ==
  LET s1 == Chk(s, ~(BufLen(m) < offset + SizeofInterfaceBlob), "INVALID",
                "The buffer is too short")
      s2 == Chk(s1, U16(m, offset) = BLOB_TYPE_INTERFACE, "INVALID_BLOB",
                "Wrong blob type; expected interface")
      s3 == validate_name(m, s2, "interface", U32(m, offset + 8))
      s4 == validate_name(m, s3, "interface", U32(m, offset + 12))
      s5 == validate_name(m, s4, "interface", U32(m, offset + 4))
      n_prerequisites == U16(m, offset + 18)
      n_properties == U16(m, offset + 20)
      n_methods == U16(m, offset + 22)
      n_signals == U16(m, offset + 24)
      n_vfuncs == U16(m, offset + 26)
      n_constants == U16(m, offset + 28)
      s6 == Chk(s5, ~(BufLen(m) < offset + SizeofInterfaceBlob
                        + (n_prerequisites + (n_prerequisites % 2)) * 2
                        + n_properties * SizeofPropertyBlob
                        + n_methods * SizeofFunctionBlob
                        + n_signals * SizeofSignalBlob
                        + n_vfuncs * SizeofVFuncBlob
                        + n_constants * SizeofConstantBlob),
                "INVALID", "The buffer is too short")
      o_prereq == offset + SizeofInterfaceBlob
      s7 == validate_prerequisites(m, s6, o_prereq, 0, n_prerequisites)
      o_props == o_prereq + 2 * n_prerequisites + 2 * (n_prerequisites % 2)
      s8 == push_context(s7, gi_typelib_get_string(m, U32(m, offset + 4)))
      o_methods == o_props + n_properties * SizeofPropertyBlob
      o_signals == o_methods + n_methods * SizeofFunctionBlob
      o_vfuncs == o_signals + n_signals * SizeofSignalBlob
      o_constants == o_vfuncs + n_vfuncs * SizeofVFuncBlob
  IN pop_context(
       validate_constants(m,
         validate_vfuncs(m,
           validate_signals(m,
             validate_functions(m,
               validate_properties(m, s8, o_props, 0, n_properties),
               o_methods, 0, n_methods, BLOB_TYPE_INTERFACE),
             o_signals, 0, n_signals, offset),
           o_vfuncs, 0, n_vfuncs, offset),
         o_constants, 0, n_constants))

\* return TRUE
validate_union_blob(m, s, offset) == s

(***************************************************************************)
(* Directory, attributes, gi_typelib_validate.                             *)
(***************************************************************************)
validate_blob(m, s, offset) ==
  LET s1 == Chk(s, ~(BufLen(m) < offset + SizeofCommonBlob), "INVALID",
                "The buffer is too short")
      bt == U16(m, offset)
  IN IF s1.st # "ok" THEN s1
     ELSE IF bt = BLOB_TYPE_FUNCTION THEN validate_function_blob(m, s1, offset, 0)
     ELSE IF bt = BLOB_TYPE_CALLBACK THEN validate_callback_blob(m, s1, offset)
     ELSE IF bt \in {BLOB_TYPE_STRUCT, BLOB_TYPE_BOXED} THEN validate_struct_blob(m, s1, offset, bt)
     ELSE IF bt \in {BLOB_TYPE_ENUM, BLOB_TYPE_FLAGS} THEN validate_enum_blob(m, s1, offset, bt)
     ELSE IF bt = BLOB_TYPE_OBJECT THEN validate_object_blob(m, s1, offset)
     ELSE IF bt = BLOB_TYPE_INTERFACE THEN validate_interface_blob(m, s1, offset)
     ELSE IF bt = BLOB_TYPE_CONSTANT THEN validate_constant_blob(m, s1, offset)
     ELSE IF bt = BLOB_TYPE_UNION THEN validate_union_blob(m, s1, offset)
     ELSE Fail(s1, "INVALID_ENTRY", "Invalid blob type")

\* one iteration of the loop of validate_directory, for entry i + 1
validate_directory_entry(m, s, i) ==
  LET e == gi_typelib_get_dir_entry(m, i + 1)
      s1 == validate_name(m, s, "entry", entry_name(m, e))
      s2 == Chk(s1, ~((entry_local(m, e) /\ entry_blob_type(m, e) = BLOB_TYPE_INVALID)
                      \/ entry_blob_type(m, e) > BLOB_TYPE_UNION),
                "INVALID_DIRECTORY", "Invalid entry type")
      s3 == Chk(s2, entry_local(m, e), "INVALID_DIRECTORY",
                "Too few local directory entries")
      s4 == Chk(s3, is_aligned(entry_offset(m, e)), "INVALID_DIRECTORY", "Misaligned entry")
      s6 == Chk(s2, ~entry_local(m, e), "INVALID_DIRECTORY",
                "Too many local directory entries")
      s7 == validate_name(m, s6, "namespace", entry_offset(m, e))
  IN IF i < hdr_n_local_entries(m) THEN validate_blob(m, s4, entry_offset(m, e)) ELSE s7

\* the entries validated from the last to the first
RECURSIVE validate_directory_entries_descending(_, _, _, _)
validate_directory_entries_descending(m, s, i, n) ==
  IF i >= n \/ s.st # "ok" THEN s
  ELSE validate_directory_entries_descending(
         m, validate_directory_entry(m, s, n - 1), i, n - 1)

RECURSIVE validate_directory_entries(_, _, _, _)
validate_directory_entries(m, s, i, n) ==
  IF i >= n \/ s.st # "ok" THEN s
  ELSE validate_directory_entries(m, validate_directory_entry(m, s, i), i + 1, n)

validate_directory(m, s) ==
  LET s1 == Chk(s, ~(BufLen(m) < hdr_directory(m) + hdr_n_entries(m) * SizeofDirEntry),
                "INVALID", "The buffer is too short")
  IN validate_directory_entries(m, s1, 0, hdr_n_entries(m))

validate_attributes(m, s) ==
  Chk(s, ~(\/ hdr_size(m) < hdr_n_attributes(m)
           \/ hdr_size(m) < hdr_attributes(m) + hdr_n_attributes(m) * SizeofAttributeBlob),
      "INVALID", "The buffer is too short")

\* the section label and the context stack the message is prefixed with
\* the bytes of the section label gi_typelib_validate passes
section_text(section) ==
  CASE section = "In header" -> <<73, 110, 32, 104, 101, 97, 100, 101, 114>>
    [] section = "directory" -> <<100, 105, 114, 101, 99, 116, 111, 114, 121>>
    [] section = "attributes" -> <<97, 116, 116, 114, 105, 98, 117, 116, 101, 115>>

\* for (; link; link = link->next): the names from the head of the stack on,
\* a '/' after each but the last
RECURSIVE context_string(_)
context_string(ctx) ==
  IF ctx = <<>> THEN <<>>
  ELSE Head(ctx) \o (IF Tail(ctx) # <<>> THEN <<47>> ELSE <<>>) \o context_string(Tail(ctx))

\* the text g_prefix_error puts before the message: "In %s:" for an empty
\* stack, else "In %s (Context: %s): " with buf, which ends in ')'
prefix_text(section, ctx) ==
  IF ctx = <<>> THEN <<73, 110, 32>> \o section_text(section) \o <<58>>
  ELSE <<73, 110, 32>> \o section_text(section)
         \o <<32, 40, 67, 111, 110, 116, 101, 120, 116, 58, 32>>
         \o (context_string(ctx) \o <<41>>) \o <<41, 58, 32>>

prefix_with_context(s, section) ==
  IF s.st = "error" /\ s.section = "none"
    THEN [s EXCEPT !.section = section, !.prefix = prefix_text(section, s.ctx)]
    ELSE s

\* the validators run one after the other; the first that fails is prefixed
gi_typelib_validate(m) ==
  prefix_with_context(
    validate_attributes(m,
      prefix_with_context(
        validate_directory(m,
          prefix_with_context(validate_header(m, StartState), "In header")),
        "directory")),
    "attributes")

(***************************************************************************)
(* Lookups.  A lookup threads a read state [st, oob, ret]: ret is the       *)
(* offset of the DirEntry returned or NoEntry, or that of the Section or 0. *)
(***************************************************************************)
\* return NULL of the entry lookups (an entry is returned as its offset)
NoEntry == -1

LookupStart == [st |-> "ok", oob |-> FALSE, ret |-> 0]

Ret(r, v) == IF r.st # "ok" THEN r ELSE [r EXCEPT !.ret = v]

\* byte i of the C string lit (NUL after its bytes)
LitByte(lit, i) == IF i < Len(lit) THEN lit[i + 1] ELSE 0

\* strcmp (lit, data + o): index of the byte at which the comparison stops
strcmp_stop(m, o, lit) ==
  Min({i \in 0..Len(lit) : U8(m, o + i) # LitByte(lit, i) \/ LitByte(lit, i) = 0})

strcmp_eq(m, o, lit) ==
  LET k == strcmp_stop(m, o, lit)
  IN U8(m, o + k) = LitByte(lit, k)

\* the bytes strcmp reads of the string at data + o
strcmp_read(m, r, o, lit) == Touch(m, r, o, strcmp_stop(m, o, lit) + 1)

\* the bytes strlen reads of the string at data + o
strlen_read(m, r, o) ==
  LET z == memchr0(m, o, Mapped(m) - 1)
  IN IF z < 0 THEN Touch(m, r, IF o > Mapped(m) THEN o ELSE Mapped(m), 1)
     ELSE Touch(m, r, o, z - o + 1)

\* for (section = &data[o]; section->id != GI_SECTION_END; section++)
RECURSIVE section_walk(_, _, _, _)
section_walk(m, r, o, section_type) ==
  LET r1 == Touch(m, r, o, 4)
  IN IF r1.st # "ok" THEN r1
     ELSE IF U32(m, o) = GI_SECTION_END THEN Ret(r1, 0)
     ELSE IF U32(m, o) = section_type THEN Ret(r1, o)
     ELSE section_walk(m, r1, o + SizeofSection, section_type)

get_section_by_id(m, r, section_type) ==
  IF hdr_sections(m) = 0 THEN Ret(r, 0)
  ELSE section_walk(m, r, hdr_sections(m), section_type)

\* the scan taken over every directory entry, the foreign ones too
RECURSIVE by_name_scan_all(_, _, _, _, _)
by_name_scan_all(m, r, i, n_entries, name) ==
  IF r.st # "ok" THEN r
  ELSE IF i > hdr_n_entries(m) THEN Ret(r, NoEntry)
  ELSE
    LET entry == gi_typelib_get_dir_entry(m, i)
        r1 == Touch(m, r, entry + 4, 4)
        r2 == strcmp_read(m, r1, entry_name(m, entry), name)
    IN IF r2.st = "ok" /\ strcmp_eq(m, entry_name(m, entry), name) THEN Ret(r2, entry)
       ELSE by_name_scan_all(m, r2, i + 1, n_entries, name)

\* for (i = 1; i <= n_entries; i++) of gi_typelib_get_dir_entry_by_name
RECURSIVE by_name_scan(_, _, _, _, _)
by_name_scan(m, r, i, n_entries, name) ==
  IF r.st # "ok" THEN r
  ELSE IF i > n_entries THEN Ret(r, NoEntry)
  ELSE
    LET entry == gi_typelib_get_dir_entry(m, i)
        r1 == Touch(m, r, entry + 4, 4)
        r2 == strcmp_read(m, r1, entry_name(m, entry), name)
    IN IF r2.st = "ok" /\ strcmp_eq(m, entry_name(m, entry), name) THEN Ret(r2, entry)
       ELSE by_name_scan(m, r2, i + 1, n_entries, name)

\* index: what gi_typelib_hash_search returns for name
gi_typelib_get_dir_entry_by_name(m, name, index) ==
  LET dirindex == get_section_by_id(m, LookupStart, GI_SECTION_DIRECTORY_INDEX)
      n_entries == hdr_n_local_entries(m)
      r1 == Touch(m, dirindex, dirindex.ret + 4, 4)
      hash == U32(m, dirindex.ret + 4)
      r2 == Touch(m, r1, hash, 4)
      entry == gi_typelib_get_dir_entry(m, index + 1)
      r3 == Touch(m, r2, entry + 4, 4)
      r4 == strcmp_read(m, r3, entry_name(m, entry), name)
  IN IF dirindex.st # "ok" THEN dirindex
     ELSE IF dirindex.ret = 0 THEN by_name_scan(m, dirindex, 1, n_entries, name)
     ELSE IF r4.st = "ok" /\ strcmp_eq(m, entry_name(m, entry), name) THEN Ret(r4, entry)
     ELSE Ret(r4, NoEntry)

BLOB_IS_REGISTERED_TYPE(blob_type) ==
  blob_type \in {BLOB_TYPE_STRUCT, BLOB_TYPE_UNION, BLOB_TYPE_ENUM, BLOB_TYPE_OBJECT,
                 BLOB_TYPE_INTERFACE}

\* for (size_t i = 1; i <= header->n_local_entries; i++)
RECURSIVE by_gtype_name_scan(_, _, _, _)
by_gtype_name_scan(m, r, i, gtype_name) ==
  IF r.st # "ok" THEN r
  ELSE IF i > hdr_n_local_entries(m) THEN Ret(r, NoEntry)
  ELSE
    LET entry == gi_typelib_get_dir_entry(m, i)
        r1 == Touch(m, r, entry, SizeofDirEntry)
        blob == entry_offset(m, entry)
        r2 == Touch(m, r1, blob + 8, 4)
        type == U32(m, blob + 8)
        r3 == strcmp_read(m, r2, type, gtype_name)
    IN IF r1.st # "ok" THEN r1
       ELSE IF ~BLOB_IS_REGISTERED_TYPE(entry_blob_type(m, entry))
         THEN by_gtype_name_scan(m, r1, i + 1, gtype_name)
       ELSE IF r2.st # "ok" THEN r2
       ELSE IF type = 0 THEN by_gtype_name_scan(m, r2, i + 1, gtype_name)
       ELSE IF r3.st = "ok" /\ strcmp_eq(m, type, gtype_name) THEN Ret(r3, entry)
       ELSE by_gtype_name_scan(m, r3, i + 1, gtype_name)

gi_typelib_get_dir_entry_by_gtype_name(m, gtype_name) ==
  by_gtype_name_scan(m, LookupStart, 1, gtype_name)

\* for (size_t i = 1; i <= n_entries; i++); domain_string is the quark's string
RECURSIVE by_error_domain_scan(_, _, _, _)
by_error_domain_scan(m, r, i, domain_string) ==
  IF r.st # "ok" THEN r
  ELSE IF i > hdr_n_local_entries(m) THEN Ret(r, NoEntry)
  ELSE
    LET entry == gi_typelib_get_dir_entry(m, i)
        r1 == Touch(m, r, entry, SizeofDirEntry)
        blob == entry_offset(m, entry)
        r2 == Touch(m, r1, blob + 20, 4)
        error_domain == U32(m, blob + 20)
        r3 == strcmp_read(m, r2, error_domain, domain_string)
    IN IF r1.st # "ok" THEN r1
       ELSE IF entry_blob_type(m, entry) # BLOB_TYPE_ENUM
         THEN by_error_domain_scan(m, r1, i + 1, domain_string)
       ELSE IF r2.st # "ok" THEN r2
       ELSE IF error_domain = 0 THEN by_error_domain_scan(m, r2, i + 1, domain_string)
       ELSE IF r3.st = "ok" /\ strcmp_eq(m, error_domain, domain_string) THEN Ret(r3, entry)
       ELSE by_error_domain_scan(m, r3, i + 1, domain_string)

gi_typelib_get_dir_entry_by_error_domain(m, domain_string) ==
  by_error_domain_scan(m, LookupStart, 1, domain_string)

\* strsplit_iter_next yielding the first element only
strsplit_iter_first(str, start) ==
  LET seps == {i \in start..Len(str) : str[i] = 44}
  IN IF seps = {} THEN <<SubSeq(str, start, Len(str))>>
     ELSE <<SubSeq(str, start, Min(seps) - 1)>>

\* the values strsplit_iter_next yields for the string str from position start
RECURSIVE strsplit_iter_next(_, _)
strsplit_iter_next(str, start) ==
  LET seps == {i \in start..Len(str) : str[i] = 44}
  IN IF seps = {} THEN <<SubSeq(str, start, Len(str))>>
     ELSE <<SubSeq(str, start, Min(seps) - 1)>> \o strsplit_iter_next(str, Min(seps) + 1)

g_ascii_isupper(c) == c \in 65..90

gi_typelib_matches_gtype_name_prefix(m, gtype_name) ==
  LET r1 == strlen_read(m, LookupStart, hdr_c_prefix(m))
      c_prefix == gi_typelib_get_string(m, hdr_c_prefix(m))
      prefixes == strsplit_iter_next(c_prefix, 1)
      matches(prefix) ==
        /\ ~(Len(gtype_name) < Len(prefix))
        /\ SubSeq(gtype_name, 1, Len(prefix)) = prefix
        /\ g_ascii_isupper(LitByte(gtype_name, Len(prefix)))
  IN IF r1.st # "ok" THEN r1
     ELSE IF Len(c_prefix) = 0 THEN Ret(r1, FALSE)
     ELSE Ret(r1, \E k \in 1..Len(prefixes) : matches(prefixes[k]))

\* the namespace string, read by the caller up to its NUL
gi_typelib_get_namespace(m) ==
  LET r1 == strlen_read(m, LookupStart, hdr_namespace(m))
  IN Ret(r1, gi_typelib_get_string(m, hdr_namespace(m)))

(***************************************************************************)
(* Input typelibs, built record by record as the typelib compiler lays     *)
(* them out: header, directory, blobs, string table.                       *)
(***************************************************************************)
LE16(v) == <<v % 256, v \div 256>>

LE32(v) == <<v % 256, (v \div 256) % 256, (v \div 65536) % 256, v \div 16777216>>

Zeros(n) == [i \in 1..n |-> 0]

MkHeader(n_entries, n_local_entries, directory, size, namespace, c_prefix, sections) ==
  GI_IR_MAGIC \o <<MajorVersion, 0>> \o LE16(0)
    \o LE16(n_entries) \o LE16(n_local_entries) \o LE32(directory)
    \o LE32(0) \o LE32(0) \o LE32(0)
    \o LE32(size) \o LE32(namespace) \o LE32(0) \o LE32(0) \o LE32(c_prefix)
    \o LE16(SizeofDirEntry) \o LE16(SizeofFunctionBlob) \o LE16(SizeofCallbackBlob)
    \o LE16(SizeofSignalBlob) \o LE16(SizeofVFuncBlob) \o LE16(SizeofArgBlob)
    \o LE16(SizeofPropertyBlob) \o LE16(SizeofFieldBlob) \o LE16(SizeofValueBlob)
    \o LE16(SizeofAttributeBlob) \o LE16(SizeofConstantBlob) \o LE16(0)
    \o LE16(SizeofSignatureBlob) \o LE16(SizeofEnumBlob) \o LE16(SizeofStructBlob)
    \o LE16(SizeofObjectBlob) \o LE16(SizeofInterfaceBlob) \o LE16(SizeofUnionBlob)
    \o LE32(sections) \o Zeros(12)

MkDirEntry(blob_type, local, name, offset) ==
  LE16(blob_type) \o LE16(local) \o LE32(name) \o LE32(offset)

\* SimpleTypeBlob of a basic type
MkBasic(tag, pointer) == <<0, 0, 0, pointer + 8 * tag>>

MkFunction(flags, name, symbol, signature) ==
  LE16(BLOB_TYPE_FUNCTION) \o LE16(flags) \o LE32(name) \o LE32(symbol)
    \o LE32(signature) \o LE32(0)

MkSignature(return_type, n_arguments) == return_type \o LE16(0) \o LE16(n_arguments)

\* SimpleTypeBlob that refers to the complex type blob at offset
MkRef(offset) == LE32(offset)

MkArg(name, arg_type) == LE32(name) \o LE32(0) \o LE32(0) \o arg_type

\* ArrayTypeBlob: pointer, tag, flags, dimensions, element type
MkArrayType(type) == <<1 + 8 * GI_TYPE_TAG_ARRAY, 0>> \o LE16(0) \o type

\* ParamTypeBlob; its n_types SimpleTypeBlobs follow it
MkParamType(tag, n_types) == <<1 + 8 * tag, 0>> \o LE16(n_types)

MkIfaceType(interface) == <<1 + 8 * GI_TYPE_TAG_INTERFACE, 0>> \o LE16(interface)

MkErrorType == <<1 + 8 * GI_TYPE_TAG_ERROR, 0>> \o LE16(0)

MkCallback(name, signature) ==
  LE16(BLOB_TYPE_CALLBACK) \o LE16(0) \o LE32(name) \o LE32(signature)

\* FieldBlob; flags: readable 1, writable 2, has_embedded_type 4
MkField(name, flags, type) == LE32(name) \o <<flags, 0>> \o LE16(0) \o LE32(0) \o type

MkProperty(name, type) == LE32(name) \o LE32(0) \o LE32(0) \o type

MkSignal(flags, class_closure, name, signature) ==
  LE16(flags) \o LE16(class_closure) \o LE32(name) \o LE32(0) \o LE32(signature)

MkVFunc(name, flags, signature) ==
  LE32(name) \o LE16(flags) \o LE16(0) \o LE16(0) \o LE16(0) \o LE32(0) \o LE32(signature)

MkConstant(name, type, size, offset) ==
  LE16(BLOB_TYPE_CONSTANT) \o LE16(0) \o LE32(name) \o type \o LE32(size) \o LE32(offset)
    \o LE32(0)

\* RegisteredTypeBlob, the head of struct, enum, object, interface, union
MkRegistered(blob_type, flags, name, gtype_name, gtype_init) ==
  LE16(blob_type) \o LE16(flags) \o LE32(name) \o LE32(gtype_name) \o LE32(gtype_init)

MkStruct(flags, name, gtype_name, gtype_init, n_fields, n_methods) ==
  MkRegistered(BLOB_TYPE_STRUCT, flags, name, gtype_name, gtype_init)
    \o LE32(0) \o LE16(n_fields) \o LE16(n_methods) \o LE32(0) \o LE32(0)

\* counts: n_interfaces, n_fields, n_properties, n_methods, n_signals, n_vfuncs,
\* n_constants, n_field_callbacks
MkObject(name, gtype_name, gtype_init, parent, gtype_struct, counts) ==
  MkRegistered(BLOB_TYPE_OBJECT, 0, name, gtype_name, gtype_init)
    \o LE16(parent) \o LE16(gtype_struct)
    \o LE16(counts[1]) \o LE16(counts[2]) \o LE16(counts[3]) \o LE16(counts[4])
    \o LE16(counts[5]) \o LE16(counts[6]) \o LE16(counts[7]) \o LE16(counts[8])
    \o Zeros(24)

\* counts: n_prerequisites, n_properties, n_methods, n_signals, n_vfuncs, n_constants
MkInterface(name, gtype_name, gtype_init, gtype_struct, counts) ==
  MkRegistered(BLOB_TYPE_INTERFACE, 0, name, gtype_name, gtype_init)
    \o LE16(gtype_struct)
    \o LE16(counts[1]) \o LE16(counts[2]) \o LE16(counts[3]) \o LE16(counts[4])
    \o LE16(counts[5]) \o LE16(counts[6])
    \o Zeros(10)

MkUnion(name, gtype_name, gtype_init, n_fields, n_functions, discriminator_type) ==
  MkRegistered(BLOB_TYPE_UNION, 0, name, gtype_name, gtype_init)
    \o LE32(0) \o LE16(n_fields) \o LE16(n_functions) \o LE32(0) \o LE32(0) \o LE32(0)
    \o discriminator_type

\* S1: namespace "T", one function "f" () -> void
\*   0 header, 112 directory, 124 FunctionBlob, 144 SignatureBlob,
\*   152 "T", 154 "f"
TypelibS1 ==
  MkHeader(1, 1, 112, 156, 152, 0, 0)
    \o MkDirEntry(BLOB_TYPE_FUNCTION, 1, 154, 124)
    \o MkFunction(0, 154, 154, 144)
    \o MkSignature(MkBasic(GI_TYPE_TAG_VOID, 0), 0)
    \o <<84, 0, 102, 0>>

\* TY: namespace "T", C prefix "G", one function "g" (GList<utf8> a, GHashTable<utf8,iface 1> b,
\* GError e) -> int32[][]
\*   0 header, 112 directory, 124 FunctionBlob, 144 SignatureBlob, 152 168 184
\*   ArgBlobs, 200 GList ParamTypeBlob, 208 GHash ParamTypeBlob, 220
\*   InterfaceTypeBlob, 224 ErrorTypeBlob, 228 "T", 230 "g", 232 "a", 234 "b",
\*   236 "e", 238 "G", 240 section table (DIRECTORY_INDEX at 272, END), 256
\*   ArrayTypeBlob of 264, 264 ArrayTypeBlob of int32, 272 the directory index
TypelibTY ==
  MkHeader(1, 1, 112, 276, 228, 238, 240)
    \o MkDirEntry(BLOB_TYPE_FUNCTION, 1, 230, 124)
    \o MkFunction(0, 230, 230, 144)
    \o MkSignature(MkRef(256), 3)
    \o MkArg(232, MkRef(200)) \o MkArg(234, MkRef(208)) \o MkArg(236, MkRef(224))
    \o MkParamType(GI_TYPE_TAG_GLIST, 1) \o MkBasic(GI_TYPE_TAG_UTF8, 1)
    \o MkParamType(GI_TYPE_TAG_GHASH, 2) \o MkBasic(GI_TYPE_TAG_UTF8, 1) \o MkRef(220)
    \o MkIfaceType(1)
    \o MkErrorType
    \o <<84, 0, 103, 0, 97, 0, 98, 0, 101, 0, 71, 0>>
    \o LE32(GI_SECTION_DIRECTORY_INDEX) \o LE32(272) \o LE32(GI_SECTION_END) \o LE32(0)
    \o MkArrayType(MkRef(264))
    \o MkArrayType(MkBasic(GI_TYPE_TAG_INT32, 0))
    \o Zeros(4)

\* OB: namespace "T", C prefix "Gdk,Gtk"; entries 1 object "O", 2 struct
\* "OClass", 3 interface "I", 4 union "U" entered as "I" too, 5 "P" of namespace
\* "G" (not local)
\*   0 header, 112 directory, 172 ObjectBlob, 232 interface list, 236
\*   FieldBlob and its CallbackBlob, 264 PropertyBlob, 280 FunctionBlob, 300
\*   SignalBlob, 316 VFuncBlob, 336 ConstantBlob, 360 SignatureBlob () -> void,
\*   368 SignatureBlob () -> iface 1, 376 InterfaceTypeBlob, 380 constant value,
\*   384 StructBlob, 416 InterfaceBlob and its prerequisites, 460 UnionBlob,
\*   500 "T", 502 "O", 504 "I", 506 "U", 508 "P", 510 "G", 512 "OClass",
\*   519 "new", 523 "x", 525 "GdkO", 530 "gt", 533 "Gdk,Gtk",
\*   544 ArrayTypeBlob of int32 (referred to by no record)
TypelibOB ==
  MkHeader(5, 4, 112, 552, 500, 533, 0)
    \o MkDirEntry(BLOB_TYPE_OBJECT, 1, 502, 172)
    \o MkDirEntry(BLOB_TYPE_STRUCT, 1, 512, 384)
    \o MkDirEntry(BLOB_TYPE_INTERFACE, 1, 504, 416)
    \o MkDirEntry(BLOB_TYPE_UNION, 1, 504, 460)
    \o MkDirEntry(BLOB_TYPE_INVALID, 0, 508, 510)
    \o MkObject(502, 525, 530, 5, 2, <<1, 1, 1, 1, 1, 1, 1, 1>>)
    \o LE16(3) \o LE16(0)
    \o MkField(523, 5, LE32(0)) \o MkCallback(523, 360)
    \o MkProperty(523, MkBasic(GI_TYPE_TAG_UTF8, 1))
    \o MkFunction(8, 519, 519, 368)
    \o MkSignal(4, 0, 523, 360)
    \o MkVFunc(523, 0, 360)
    \o MkConstant(523, MkBasic(GI_TYPE_TAG_INT32, 0), 4, 380)
    \o MkSignature(MkBasic(GI_TYPE_TAG_VOID, 0), 0)
    \o MkSignature(MkRef(376), 0)
    \o MkIfaceType(1)
    \o LE32(7)
    \o MkStruct(2, 512, 0, 0, 0, 0)
    \o MkInterface(504, 530, 530, 2, <<1, 0, 0, 0, 0, 0>>)
    \o LE16(1) \o LE16(0)
    \o MkUnion(506, 525, 530, 0, 0, LE32(0))
    \o <<84, 0, 79, 0, 73, 0, 85, 0, 80, 0, 71, 0>>
    \o <<79, 67, 108, 97, 115, 115, 0, 110, 101, 119, 0, 120, 0>>
    \o <<71, 100, 107, 79, 0, 103, 116, 0>>
    \o <<71, 100, 107, 44, 71, 116, 107, 0>>
    \o Zeros(3) \o MkArrayType(MkBasic(GI_TYPE_TAG_INT32, 0))

\* ST: namespace "T", one struct "S" with the method "new" () -> iface 1, a
\* constructor
\*   0 header, 112 directory, 124 StructBlob, 156 FunctionBlob, 176
\*   SignatureBlob, 184 InterfaceTypeBlob, 188 "T", 190 "S", 192 "new",
\*   196 ArrayTypeBlob of int32 (referred to by no record)
TypelibST ==
  MkHeader(1, 1, 112, 204, 188, 0, 0)
    \o MkDirEntry(BLOB_TYPE_STRUCT, 1, 190, 124)
    \o MkStruct(2, 190, 0, 0, 0, 1)
    \o MkFunction(8, 192, 192, 176)
    \o MkSignature(MkRef(184), 0)
    \o MkIfaceType(1)
    \o <<84, 0, 83, 0, 110, 101, 119, 0>>
    \o MkArrayType(MkBasic(GI_TYPE_TAG_INT32, 0))

BaseIds == {"S1", "TY", "OB", "ST"}

Typelib(id) ==
  CASE id = "S1" -> TypelibS1
    [] id = "TY" -> TypelibTY
    [] id = "OB" -> TypelibOB
    [] id = "ST" -> TypelibST

\* entry names the caller looks up: "f", "g", "I", "P"
EntryNames == {<<102>>, <<103>>, <<73>>, <<80>>}

\* GType names the caller asks about: "GdkO", "GdkWindow", "GtkLabel",
\* "GnomeFoo", "Gdk"
GTypeNames ==
  {<<71, 100, 107, 79>>, <<71, 100, 107, 87, 105, 110, 100, 111, 119>>,
   <<71, 116, 107, 76, 97, 98, 101, 108>>, <<71, 110, 111, 109, 101, 70, 111, 111>>,
   <<71, 100, 107>>}

\* byte values written by a single-byte change of the input
PokeVals == {0, 1, 255}

BeyondSet ==
  {<<>>} \cup {[i \in 1..MaxBeyond |-> IF i <= k THEN 33 ELSE 0] : k \in 0..MaxBeyond}

(***************************************************************************)
(* Operations.                                                             *)
(***************************************************************************)
NoMut == [kind |-> "none", at |-> 0, val |-> 0]

\* the parties that hold references on the handle; holder 1 is the caller of
\* gi_typelib_new_from_bytes
Holders == 1..3

Init ==
  /\ base \in BaseIds
  /\ bytes = Typelib(base)
  /\ beyond \in BeyondSet
  /\ mut = NoMut
  /\ pc = "input"
  /\ typelib = NULL
  /\ gerror = NoError
  /\ vres = NoResult
  /\ vprev = NoResult
  /\ ncalls = 0
  /\ lres = NoResult
  /\ nlookups = 0
  /\ gbytes = 1
  /\ owned = [h \in Holders |-> 0]
  /\ upc = [h \in Holders |-> "idle"]
  /\ closed = <<>>
  /\ nfreed = 0
  /\ dlopens = 0
  /\ sres = NoResult
  /\ nsymbols = 0

\* the caller changes one byte of the blob before loading it
PokeByte(o, v) ==
  /\ pc = "input"
  /\ mut = NoMut
  /\ o < Len(bytes)
  /\ bytes[o + 1] # v
  /\ bytes' = [bytes EXCEPT ![o + 1] = v]
  /\ mut' = [kind |-> "poke", at |-> o, val |-> v]
  /\ UNCHANGED <<beyond, base, pc, typelib, gerror, vres, vprev, ncalls, lres, nlookups>>
  /\ UNCHANGED hvars

\* the return type of the constructor "new" of object "O" replaced: by the
\* basic type int32, or by a reference to the int32[] ArrayTypeBlob
ReturnTags == {GI_TYPE_TAG_INT32, GI_TYPE_TAG_ARRAY}

SetConstructorReturn(tag) ==
  /\ pc = "input"
  /\ mut = NoMut
  /\ base = "OB"
  /\ LET type == IF tag = GI_TYPE_TAG_ARRAY THEN MkRef(544) ELSE MkBasic(tag, 0)
     IN bytes' = [i \in 1..Len(bytes) |-> IF i \in 369..372 THEN type[i - 368] ELSE bytes[i]]
  /\ mut' = [kind |-> "return", at |-> 368, val |-> tag]
  /\ UNCHANGED <<beyond, base, pc, typelib, gerror, vres, vprev, ncalls, lres, nlookups>>
  /\ UNCHANGED hvars

\* containers of the method "new" of TypelibST, and its return types: void,
\* int32, the InterfaceTypeBlob at 184, the ArrayTypeBlob at 196
MethodContainers == {BLOB_TYPE_STRUCT, BLOB_TYPE_BOXED, BLOB_TYPE_UNION}

MethodReturnTags ==
  {GI_TYPE_TAG_VOID, GI_TYPE_TAG_INT32, GI_TYPE_TAG_INTERFACE, GI_TYPE_TAG_ARRAY}

\* the caller hands in TypelibST with the record at 124 of the blob type
\* container_type, the method with or without the constructor flag, and the
\* return type of tag
SetMethod(container_type, constructor, tag) ==
  /\ pc = "input"
  /\ mut = NoMut
  /\ base = "ST"
  /\ LET type == CASE tag = GI_TYPE_TAG_INTERFACE -> MkRef(184)
                   [] tag = GI_TYPE_TAG_ARRAY -> MkRef(196)
                   [] OTHER -> MkBasic(tag, 0)
     IN bytes' = [i \in 1..Len(bytes) |->
                    CASE i \in {113, 125} -> container_type
                      [] i = 159 -> IF constructor THEN 8 ELSE 0
                      [] i \in 177..180 -> type[i - 176]
                      [] OTHER -> bytes[i]]
  /\ mut' = [kind |-> "method", at |-> container_type, val |-> tag]
  /\ UNCHANGED <<beyond, base, pc, typelib, gerror, vres, vprev, ncalls, lres, nlookups>>
  /\ UNCHANGED hvars

\* places of TypelibOB where one check of the validation fails when the bytes
\* are written there, in the order the checks are made: the header (magic,
\* major version, entry counts, size, record sizes, directory alignment,
\* attributes alignment, attribute count, namespace), entry 1 (the interface,
\* field, property, method, signal, vfunc and constant of object "O"),
\* entries 2 to 5, the attributes
FaultSites ==
  << [at |-> 0, val |-> <<0>>], [at |-> 16, val |-> <<9>>], [at |-> 22, val |-> <<6>>],
     [at |-> 40, val |-> <<0>>], [at |-> 60, val |-> <<0>>], [at |-> 24, val |-> <<113>>],
     [at |-> 32, val |-> <<1>>], [at |-> 28, val |-> <<1>>], [at |-> 500, val |-> <<44>>],
     [at |-> 232, val |-> <<1>>], [at |-> 236, val |-> <<24>>],
     [at |-> 264, val |-> <<24>>], [at |-> 284, val |-> <<24>>],
     [at |-> 300, val |-> <<0>>], [at |-> 316, val |-> <<24>>],
     [at |-> 340, val |-> <<24>>], [at |-> 384, val |-> <<0>>], [at |-> 456, val |-> <<0>>],
     [at |-> 156, val |-> <<205>>], [at |-> 168, val |-> <<24>>],
     [at |-> 28, val |-> LE32(255) \o LE32(548)] >>

\* the bytes of site f written over b
WriteFault(b, f) ==
  [i \in 1..Len(b) |->
     IF i - 1 \in FaultSites[f].at..(FaultSites[f].at + Len(FaultSites[f].val) - 1)
       THEN FaultSites[f].val[i - FaultSites[f].at]
       ELSE b[i]]

\* the caller damages the blob in one place (f = g) or in two
Corrupt(f, g) ==
  /\ pc = "input"
  /\ mut = NoMut
  /\ base = "OB"
  /\ f <= g
  /\ f = g
       \/ FaultSites[f].at + Len(FaultSites[f].val) <= FaultSites[g].at
       \/ FaultSites[g].at + Len(FaultSites[g].val) <= FaultSites[f].at
  /\ bytes' = WriteFault(WriteFault(bytes, f), g)
  /\ mut' = [kind |-> "faults", at |-> f, val |-> g]
  /\ UNCHANGED <<beyond, base, pc, typelib, gerror, vres, vprev, ncalls, lres, nlookups>>
  /\ UNCHANGED hvars

\* the fields of TypelibOB that hold a directory index: the parent and the
\* gtype_struct of object "O", its interface, the prerequisite of interface "I"
ReferenceSites == {188, 190, 232, 456}

\* blob types written to the directory entry of the foreign entry 5
ForeignBlobTypes ==
  {BLOB_TYPE_INVALID, BLOB_TYPE_STRUCT, BLOB_TYPE_OBJECT, BLOB_TYPE_INTERFACE}

\* the caller hands in TypelibOB with one directory index replaced and with
\* the foreign entry carrying blob_type
SetReference(at, index, blob_type) ==
  /\ pc = "input"
  /\ mut = NoMut
  /\ base = "OB"
  /\ bytes' = [i \in 1..Len(bytes) |->
                 IF i = at + 1 THEN index
                 ELSE IF i = 161 THEN blob_type
                 ELSE bytes[i]]
  /\ mut' = [kind |-> "refer", at |-> at, val |-> index]
  /\ UNCHANGED <<beyond, base, pc, typelib, gerror, vres, vprev, ncalls, lres, nlookups>>
  /\ UNCHANGED hvars

\* the caller loads the first k bytes of the blob
Truncate(k) ==
  /\ pc = "input"
  /\ mut = NoMut
  /\ k < Len(bytes)
  /\ bytes' = SubSeq(bytes, 1, k)
  /\ mut' = [kind |-> "truncate", at |-> k, val |-> 0]
  /\ UNCHANGED <<beyond, base, pc, typelib, gerror, vres, vprev, ncalls, lres, nlookups>>
  /\ UNCHANGED hvars

\* header.size decremented by one and the buffer truncated to match
Shrink ==
  /\ pc = "input"
  /\ mut = NoMut
  /\ Len(bytes) > SizeofHeader
  /\ LET size == U32(Mem(bytes, <<>>), 40)
         b1 == SubSeq(bytes, 1, Len(bytes) - 1)
         sz == LE32(size - 1)
     IN bytes' = [i \in 1..Len(b1) |-> IF i \in 41..44 THEN sz[i - 40] ELSE b1[i]]
  /\ mut' = [kind |-> "shrink", at |-> Len(bytes) - 1, val |-> 0]
  /\ UNCHANGED <<beyond, base, pc, typelib, gerror, vres, vprev, ncalls, lres, nlookups>>
  /\ UNCHANGED hvars

gi_typelib_new_from_bytes ==
  /\ pc = "input"
  /\ LET s == validate_header_basic(Mem(bytes, beyond), StartState)
     IN IF s.st = "ok"
          THEN /\ typelib' = [ref_count |-> 1, modules |-> <<>>, open_attempted |-> FALSE]
               /\ gbytes' = gbytes + 1
               /\ owned' = [owned EXCEPT ![1] = 1]
               /\ gerror' = NoError
               /\ pc' = "live"
          ELSE /\ typelib' = NULL
               /\ UNCHANGED <<gbytes, owned>>
               /\ gerror' = [code |-> s.code, msg |-> s.msg]
               /\ pc' = "failed"
  /\ UNCHANGED <<bytes, beyond, base, mut, vres, vprev, ncalls, lres, nlookups>>
  /\ UNCHANGED <<upc, closed, nfreed, dlopens, sres, nsymbols>>

\* Callers validate a handle before they look anything up in it.
Validate ==
  /\ pc = "live"
  /\ ncalls < MaxValidate
  /\ nlookups = 0
  /\ vprev' = vres
  /\ vres' = gi_typelib_validate(Mem(bytes, beyond))
  /\ ncalls' = ncalls + 1
  /\ UNCHANGED <<bytes, beyond, base, mut, pc, typelib, gerror, lres, nlookups>>
  /\ UNCHANGED hvars

\* A lookup on a validated handle; lres records the call, the answer of
\* gi_typelib_hash_search it was given (0 for the calls that make no hash
\* search) and what it read.
Lookup(op, arg, index, r) ==
  /\ pc = "live"
  /\ vres.st = "ok"
  /\ nlookups < MaxLookups
  /\ nlookups' = nlookups + 1
  /\ lres' = [op |-> op, arg |-> arg, index |-> index, st |-> r.st, oob |-> r.oob,
              ret |-> r.ret]
  /\ UNCHANGED <<bytes, beyond, base, mut, pc, typelib, gerror, vres, vprev, ncalls>>
  /\ UNCHANGED hvars

GetDirEntryByName(name, index) ==
  Lookup("gi_typelib_get_dir_entry_by_name", name, index,
         gi_typelib_get_dir_entry_by_name(Mem(bytes, beyond), name, index))

GetDirEntryByGTypeName(gtype_name) ==
  Lookup("gi_typelib_get_dir_entry_by_gtype_name", gtype_name, 0,
         gi_typelib_get_dir_entry_by_gtype_name(Mem(bytes, beyond), gtype_name))

GetDirEntryByErrorDomain(domain_string) ==
  Lookup("gi_typelib_get_dir_entry_by_error_domain", domain_string, 0,
         gi_typelib_get_dir_entry_by_error_domain(Mem(bytes, beyond), domain_string))

MatchesGTypeNamePrefix(gtype_name) ==
  Lookup("gi_typelib_matches_gtype_name_prefix", gtype_name, 0,
         gi_typelib_matches_gtype_name_prefix(Mem(bytes, beyond), gtype_name))

GetNamespace ==
  Lookup("gi_typelib_get_namespace", <<>>, 0,
         gi_typelib_get_namespace(Mem(bytes, beyond)))

\* the rest of the process writes to the memory after the buffer
HeapChurn ==
  /\ pc = "live"
  /\ beyond' \in BeyondSet \ {beyond}
  /\ UNCHANGED <<bytes, base, mut, pc, typelib, gerror, vres, vprev, ncalls, lres, nlookups>>
  /\ UNCHANGED hvars

Next ==
  \/ \E o \in 0..(Len(bytes) - 1), v \in PokeVals : PokeByte(o, v)
  \/ \E k \in 0..(Len(bytes) - 1) : Truncate(k)
  \/ \E tag \in ReturnTags : SetConstructorReturn(tag)
  \/ \E f, g \in 1..Len(FaultSites) : Corrupt(f, g)
  \/ Shrink
  \/ gi_typelib_new_from_bytes
  \/ Validate
  \/ \E name \in EntryNames, index \in 0..MaxHashIndex : GetDirEntryByName(name, index)
  \/ \E name \in GTypeNames : GetDirEntryByGTypeName(name)
  \/ \E name \in GTypeNames : GetDirEntryByErrorDomain(name)
  \/ \E name \in GTypeNames : MatchesGTypeNamePrefix(name)
  \/ GetNamespace
  \/ HeapChurn

Spec == Init /\ [][Next]_vars

\* loading and validating only: no lookup is called on the handle
NextValidate ==
  \/ \E o \in 0..(Len(bytes) - 1), v \in PokeVals : PokeByte(o, v)
  \/ \E k \in 0..(Len(bytes) - 1) : Truncate(k)
  \/ \E tag \in ReturnTags : SetConstructorReturn(tag)
  \/ \E f, g \in 1..Len(FaultSites) : Corrupt(f, g)
  \/ \E at \in ReferenceSites, index \in 0..6, blob_type \in ForeignBlobTypes :
       SetReference(at, index, blob_type)
  \/ \E container_type \in MethodContainers, constructor \in BOOLEAN,
        tag \in MethodReturnTags :
       SetMethod(container_type, constructor, tag)
  \/ Shrink
  \/ gi_typelib_new_from_bytes
  \/ Validate
  \/ HeapChurn

SpecValidate == Init /\ [][NextValidate]_vars

(***************************************************************************)
(* The handle: references, shared libraries, symbols.                      *)
(***************************************************************************)
\* g_atomic_ref_count_inc: the count after the call
g_atomic_ref_count_inc(ref_count) == ref_count + 1

\* a decrement that reports the last reference one reference early
g_atomic_ref_count_dec_early(ref_count) == ref_count - 1 <= 1

\* g_atomic_ref_count_dec: TRUE when the call brought the count to zero
g_atomic_ref_count_dec(ref_count) == ref_count - 1 = 0

\* g_strsplit (str, ",", 0): the pieces of str between the commas
RECURSIVE g_strsplit(_)
g_strsplit(str) ==
  LET commas == {i \in 1..Len(str) : str[i] = 44}
  IN IF commas = {} THEN <<str>>
     ELSE <<SubSeq(str, 1, Min(commas) - 1)>>
            \o g_strsplit(SubSeq(str, Min(commas) + 1, Len(str)))

\* the module of the program itself, g_module_open (NULL, 0)
MainModule == <<>>

\* the shared libraries of the machine: "Gdk", "Gtk", "G"
Libraries == {<<71, 100, 107>>, <<71, 116, 107>>, <<71>>}

\* the symbols a caller asks for
SymbolNames == {"init", "gdk_only", "gtk_only", "none"}

\* g_module_symbol: the symbols a module defines
ModuleSymbols(module) ==
  CASE module = <<71, 100, 107>> -> {"init", "gdk_only"}
    [] module = <<71, 116, 107>> -> {"init", "gtk_only"}
    [] module = <<71>> -> {"init"}
    [] OTHER -> {"init"}

\* for (i = 0; shlibs[i]; i++): the modules of the libraries that
\* load_one_shared_library opens (those in avail), in list order
RECURSIVE load_shared_libraries(_, _)
load_shared_libraries(shlibs, avail) ==
  IF shlibs = <<>> THEN <<>>
  ELSE (IF Head(shlibs) \in avail THEN <<Head(shlibs)>> ELSE <<>>)
         \o load_shared_libraries(Tail(shlibs), avail)

\* the module list gi_typelib_do_dlopen leaves; avail: the libraries
\* g_module_open can open, main: whether g_module_open (NULL, 0) succeeds
gi_typelib_do_dlopen(m, modules, avail, main) ==
  LET shlib_str == gi_typelib_get_string(m, hdr_shared_library(m))
  IN IF hdr_shared_library(m) # 0 /\ shlib_str # <<>>
       THEN modules \o load_shared_libraries(g_strsplit(shlib_str), avail)
       ELSE IF main THEN <<MainModule>> \o modules ELSE modules

\* an open made again whenever the module list is empty
gi_typelib_ensure_open_retry(t) == ~t.open_attempted \/ t.modules = <<>>

\* if (typelib->open_attempted) return: whether gi_typelib_ensure_open opens
gi_typelib_ensure_open(t) == ~t.open_attempted

\* for (l = typelib->modules; l; l = l->next): the place in the list of the
\* first module that has the symbol, 0 when none has it
symbol_search(modules, symbol_name) ==
  LET has == {k \in 1..Len(modules) : symbol_name \in ModuleSymbols(modules[k])}
  IN IF has = {} THEN 0 ELSE Min(has)

\* offsets in TypelibOB given to header.shared_library: "Gdk,Gtk", "G", ""
SharedLibraryOffsets == {533, 510, 507}

\* the caller hands in TypelibOB with shared_library set
SetSharedLibrary(o) ==
  /\ pc = "input"
  /\ mut = NoMut
  /\ base = "OB"
  /\ bytes' = [i \in 1..Len(bytes) |-> IF i \in 53..56 THEN LE32(o)[i - 52] ELSE bytes[i]]
  /\ mut' = [kind |-> "shlib", at |-> 52, val |-> o]
  /\ UNCHANGED <<beyond, base, pc, typelib, gerror, vres, vprev, ncalls, lres, nlookups>>
  /\ UNCHANGED hvars

\* holder h takes a reference for holder to
Ref(h, to) ==
  /\ pc = "live"
  /\ owned[h] > 0
  /\ typelib.ref_count < MaxRefs
  /\ typelib' = [typelib EXCEPT !.ref_count = g_atomic_ref_count_inc(typelib.ref_count)]
  /\ owned' = [owned EXCEPT ![to] = owned[to] + 1]
  /\ UNCHANGED <<bytes, beyond, base, mut, pc, gerror, vres, vprev, ncalls, lres, nlookups>>
  /\ UNCHANGED <<gbytes, upc, closed, nfreed, dlopens, sres, nsymbols>>

\* gi_typelib_unref by holder h up to the atomic decrement
UnrefDec(h) ==
  /\ pc = "live"
  /\ owned[h] > 0
  /\ upc[h] = "idle"
  /\ owned' = [owned EXCEPT ![h] = owned[h] - 1]
  /\ typelib' = [typelib EXCEPT !.ref_count = typelib.ref_count - 1]
  /\ upc' = [upc EXCEPT ![h] = IF g_atomic_ref_count_dec(typelib.ref_count)
                                  THEN "release" ELSE "idle"]
  /\ UNCHANGED <<bytes, beyond, base, mut, pc, gerror, vres, vprev, ncalls, lres, nlookups>>
  /\ UNCHANGED <<gbytes, closed, nfreed, dlopens, sres, nsymbols>>

\* gi_typelib_unref by holder h after a decrement that returned TRUE: the
\* GBytes reference is dropped, the modules are closed, the handle is freed
UnrefRelease(h) ==
  /\ upc[h] = "release"
  /\ gbytes' = gbytes - 1
  /\ closed' = closed \o typelib.modules
  /\ nfreed' = nfreed + 1
  /\ upc' = [upc EXCEPT ![h] = "idle"]
  /\ UNCHANGED <<bytes, beyond, base, mut, pc, typelib, gerror, vres, vprev, ncalls, lres,
                 nlookups>>
  /\ UNCHANGED <<owned, dlopens, sres, nsymbols>>

\* gi_typelib_symbol called by a holder, one call after the other
Symbol(h, symbol_name, avail, main) ==
  /\ pc = "live"
  /\ owned[h] > 0
  /\ nsymbols < MaxSymbols
  /\ LET open == gi_typelib_ensure_open(typelib)
         modules == IF open
                      THEN gi_typelib_do_dlopen(Mem(bytes, beyond), typelib.modules, avail, main)
                      ELSE typelib.modules
     IN /\ typelib' = [typelib EXCEPT !.open_attempted = TRUE, !.modules = modules]
        /\ dlopens' = IF open THEN dlopens + 1 ELSE dlopens
        /\ sres' = [st |-> "ok", symbol_name |-> symbol_name,
                    found |-> symbol_search(modules, symbol_name),
                    ret |-> symbol_search(modules, symbol_name) # 0]
  /\ nsymbols' = nsymbols + 1
  /\ UNCHANGED <<bytes, beyond, base, mut, pc, gerror, vres, vprev, ncalls, lres, nlookups>>
  /\ UNCHANGED <<gbytes, owned, upc, closed, nfreed>>

NextHandle ==
  \/ \E o \in SharedLibraryOffsets : SetSharedLibrary(o)
  \/ gi_typelib_new_from_bytes
  \/ \E h, to \in Holders : Ref(h, to)
  \/ \E h \in Holders : UnrefDec(h)
  \/ \E h \in Holders : UnrefRelease(h)
  \/ \E h \in Holders, symbol_name \in SymbolNames, avail \in SUBSET Libraries,
        main \in BOOLEAN :
       Symbol(h, symbol_name, avail, main)

\* a handle and its holders: references, the shared libraries, symbols
SpecHandle == Init /\ [][NextHandle]_vars

(***************************************************************************)
(* Properties.                                                             *)
(***************************************************************************)
\* the buffer as the handle sees it
M == Mem(bytes, beyond)

Loaded == pc # "input"

Rejected(code) == pc = "failed" /\ typelib = NULL /\ gerror.code = code

Validated == vres.st # "none"

\* C1: gi_typelib_validate reads n bytes at offset o only when o + n <= length,
\* for every record it traverses, complex type blobs and parameter type
\* slots included: no call reads a byte at or after data + len.
C1_ReadsInsideBuffer == Validated => ~vres.oob

\* C2: gi_typelib_validate terminates on every buffer, also when the offsets
\* of complex type blobs form a cycle: no call re-enters a validate_type_blob
\* frame that is still on its call chain.
C2_Terminates == Validated => vres.st # "loop"

\* C3: on a handle that gi_typelib_validate accepted, a lookup dereferences
\* only offsets inside the buffer: no lookup reads a byte at or after
\* data + len.
C3_LookupsInsideBuffer == lres.st # "none" => ~lres.oob

\* C4: the typelibs the model starts from are accepted by
\* gi_typelib_new_from_bytes and gi_typelib_validate, and every truncation
\* b[0..k], k < len(b), of one of them is rejected by gi_typelib_new_from_bytes
\* (no handle is made, so gi_typelib_validate never runs on it).
C4_TruncationRejected ==
  /\ mut.kind = "none" /\ Loaded => pc = "live"
  /\ mut.kind = "none" /\ Validated => vres.st = "ok"
  /\ mut.kind = "truncate" /\ Loaded =>
       /\ Rejected(IF Len(bytes) < SizeofHeader THEN "INVALID" ELSE "INVALID_HEADER")
       /\ ~Validated

\* a truncation that keeps the whole header and more has been rejected
C4_Witness ==
  mut.kind = "truncate" /\ pc = "failed" /\ Len(bytes) = Len(Typelib(base)) - 1

\* the header's size field is present and differs from the buffer length
SizeMismatch == Len(bytes) >= 44 /\ hdr_size(M) # Len(bytes)

\* C5 as claimed: every buffer whose size field differs from its length is
\* rejected with INVALID_HEADER, whatever its length.
C5_AlwaysInvalidHeader == SizeMismatch /\ Loaded => Rejected("INVALID_HEADER")

\* C5 amended: a buffer of at least sizeof (Header) bytes whose size field
\* differs from its length is rejected by gi_typelib_new_from_bytes with
\* INVALID_HEADER; a shorter buffer is rejected with INVALID, whatever its size
\* field holds.  No handle is made, so gi_typelib_validate never runs.
C5_SizeMismatchRejected ==
  SizeMismatch /\ Loaded =>
    /\ Rejected(IF Len(bytes) < SizeofHeader THEN "INVALID" ELSE "INVALID_HEADER")
    /\ ~Validated

\* a buffer with the whole header but shorter than sizeof (Header), rejected
C5_Witness ==
  SizeMismatch /\ Len(bytes) < SizeofHeader /\ Rejected("INVALID")

\* C6: from a buffer that passes validate_header_basic, changing one byte of
\* the 16-byte magic makes gi_typelib_new_from_bytes fail with INVALID_HEADER
\* and 'Invalid magic header', changing major_version makes it fail with
\* INVALID_HEADER, and neither returns a handle.
C6_MagicAndVersion ==
  /\ mut.kind = "none" /\ Loaded => pc = "live"
  /\ mut.kind = "poke" /\ mut.at < MagicLen /\ Loaded =>
       Rejected("INVALID_HEADER") /\ gerror.msg = "Invalid magic header"
  /\ mut.kind = "poke" /\ mut.at = 16 /\ Loaded =>
       Rejected("INVALID_HEADER") /\ gerror.msg = "Typelib version mismatch"

\* the last byte of the magic was set to NUL and the load failed
C6_Witness ==
  mut = [kind |-> "poke", at |-> MagicLen - 1, val |-> 0] /\ pc = "failed"

C8_SameResult ==
  vprev.st # "none" =>
    vres.st = vprev.st /\ vres.code = vprev.code /\ vres.msg = vprev.msg

\* the string at offset o is 1 to 2047 name characters and a NUL, all inside
\* the buffer
NameWellFormed(o) ==
  \E z \in (o + 1)..(Len(bytes) - 1) :
    /\ z - o < MAX_NAME_LEN
    /\ bytes[z + 1] = 0
    /\ \A i \in o..(z - 1) : IsNameChar(bytes[i + 1])

\* C9: after gi_typelib_validate succeeds, the namespace and the name of
\* every directory entry are 1 to 2047 bytes of [A-Za-z0-9_-] followed by a
\* NUL inside the buffer.
C9_NamesWellFormed ==
  vres.st = "ok" =>
    /\ NameWellFormed(hdr_namespace(M))
    /\ \A i \in 1..hdr_n_entries(M) :
         NameWellFormed(entry_name(M, gi_typelib_get_dir_entry(M, i)))

\* C10: in a typelib that gi_typelib_validate accepted, the gtype_struct of
\* every local interface is 0 or an index in 1..n_entries.
C10_IndicesInRange ==
  vres.st = "ok" =>
    \A i \in 1..hdr_n_local_entries(M) :
      LET entry == gi_typelib_get_dir_entry(M, i)
          gtype_struct == U16(M, entry_offset(M, entry) + 16)
      IN entry_blob_type(M, entry) = BLOB_TYPE_INTERFACE => gtype_struct <= hdr_n_entries(M)

\* the local directory entries whose blob has the given type
LocalEntries(blob_type) ==
  {i \in 1..hdr_n_local_entries(M) :
     entry_blob_type(M, gi_typelib_get_dir_entry(M, i)) = blob_type}

\* offset of the blob of directory entry i
BlobOf(i) == entry_offset(M, gi_typelib_get_dir_entry(M, i))

\* offset of the first FieldBlob of the object at offset o
ObjectFields(o) == o + SizeofObjectBlob + 2 * (U16(M, o + 20) + (U16(M, o + 20) % 2))

\* offset of field i (from 0) of a record whose fields start at offset f
RECURSIVE FieldAt(_, _)
FieldAt(f, i) ==
  IF i = 0 THEN f
  ELSE LET p == FieldAt(f, i - 1)
       IN p + SizeofFieldBlob
            + (IF field_has_embedded_type(M, p) THEN SizeofCallbackBlob ELSE 0)

\* the number of fields of the object at o that have has_embedded_type set
EmbeddedFields(o) ==
  Cardinality({i \in 0..(U16(M, o + 22) - 1) :
                 field_has_embedded_type(M, FieldAt(ObjectFields(o), i))})

FieldCallbacksMsg == "Incorrect number of field callbacks"

\* C11: in a typelib that gi_typelib_validate accepted, every local object's
\* n_field_callbacks equals the number of its fields with has_embedded_type
\* set; the count is reported only as INVALID_BLOB on an object where the two
\* differ, and an object whose count or whose field's has_embedded_type flag
\* was changed is rejected with that error, not with one of the properties
\* that follow the fields.
C11_FieldCallbackCount ==
  /\ vres.st = "ok" =>
       \A i \in LocalEntries(BLOB_TYPE_OBJECT) :
         U16(M, BlobOf(i) + 34) = EmbeddedFields(BlobOf(i))
  /\ Validated /\ vres.msg = FieldCallbacksMsg =>
       /\ vres.st = "error" /\ vres.code = "INVALID_BLOB"
       /\ \E i \in LocalEntries(BLOB_TYPE_OBJECT) :
            U16(M, BlobOf(i) + 34) # EmbeddedFields(BlobOf(i))
  /\ base = "OB" /\ mut.kind = "poke" /\ Validated
       /\ (mut.at \in {206, 207} \/ (mut.at = 240 /\ mut.val \in {0, 1})) =>
       vres.st = "error" /\ vres.msg = FieldCallbacksMsg

\* the callback field's has_embedded_type was cleared and validation reported
\* the count
C11_Witness ==
  base = "OB" /\ mut.kind = "poke" /\ mut.at = 240 /\ Validated /\ vres.msg = FieldCallbacksMsg

\* offset of the first SignalBlob of the object at offset o
ObjectSignals(o) ==
  FieldAt(ObjectFields(o), U16(M, o + 22))
    + U16(M, o + 24) * SizeofPropertyBlob + U16(M, o + 26) * SizeofFunctionBlob

\* offset of the first PropertyBlob of the interface at offset o
InterfaceProperties(o) ==
  o + SizeofInterfaceBlob + 2 * (U16(M, o + 18) + (U16(M, o + 18) % 2))

\* offset of the first SignalBlob of the interface at offset o
InterfaceSignals(o) ==
  InterfaceProperties(o)
    + U16(M, o + 20) * SizeofPropertyBlob + U16(M, o + 22) * SizeofFunctionBlob

\* the offsets of the signals of the local objects and interfaces
SignalOffsets ==
  UNION {{ObjectSignals(BlobOf(i)) + k * SizeofSignalBlob :
            k \in 0..(U16(M, BlobOf(i) + 28) - 1)} : i \in LocalEntries(BLOB_TYPE_OBJECT)}
  \cup
  UNION {{InterfaceSignals(BlobOf(i)) + k * SizeofSignalBlob :
            k \in 0..(U16(M, BlobOf(i) + 24) - 1)} : i \in LocalEntries(BLOB_TYPE_INTERFACE)}

\* the number of run_first, run_last, run_cleanup set in the SignalBlob at o
RunFlagsSet(o) ==
  Cardinality({b \in 1..3 : Bits(U8(M, o), b, 1) = 1})

RunFlagsMsg == "Invalid signal run flags"

\* C12: in a typelib that gi_typelib_validate accepted, every signal of a
\* local object or interface has exactly one of run_first, run_last,
\* run_cleanup set; 'Invalid signal run flags' is reported as INVALID_BLOB, on
\* a signal that has none or several of them set; and a signal whose flags
\* byte was changed to none (0, 1) or to all three (255) is rejected with it.
C12_RunFlagUniqueness ==
  /\ vres.st = "ok" => \A o \in SignalOffsets : RunFlagsSet(o) = 1
  /\ Validated /\ vres.msg = RunFlagsMsg =>
       /\ vres.st = "error" /\ vres.code = "INVALID_BLOB"
       /\ \E o \in SignalOffsets : RunFlagsSet(o) # 1
  /\ base = "OB" /\ mut.kind = "poke" /\ mut.at = 300 /\ Validated =>
       vres.st = "error" /\ vres.msg = RunFlagsMsg

\* a signal with run_first, run_last and run_cleanup all set was rejected
C12_Witness ==
  /\ base = "OB" /\ mut.kind = "poke" /\ mut.at = 300 /\ mut.val = 255
  /\ Validated /\ vres.msg = RunFlagsMsg

\* offset of the first FunctionBlob of the object at offset o
ObjectMethods(o) ==
  FieldAt(ObjectFields(o), U16(M, o + 22)) + U16(M, o + 24) * SizeofPropertyBlob

\* the offsets of the methods of the local objects and interfaces
MethodOffsets ==
  UNION {{ObjectMethods(BlobOf(i)) + k * SizeofFunctionBlob :
            k \in 0..(U16(M, BlobOf(i) + 26) - 1)} : i \in LocalEntries(BLOB_TYPE_OBJECT)}
  \cup
  UNION {{InterfaceProperties(BlobOf(i)) + U16(M, BlobOf(i) + 20) * SizeofPropertyBlob
            + k * SizeofFunctionBlob :
            k \in 0..(U16(M, BlobOf(i) + 22) - 1)} : i \in LocalEntries(BLOB_TYPE_INTERFACE)}

\* the return type of the signature at offset sig is a reference to a type
\* blob inside the buffer whose tag is interface
ReturnsInterface(sig) ==
  /\ \E b \in 0..2 : bytes[sig + b + 1] # 0
  /\ U32(M, sig) + SizeofInterfaceTypeBlob <= Len(bytes)
  /\ bytes[U32(M, sig) + 1] \div 8 = GI_TYPE_TAG_INTERFACE

ConstructorReturnMsg == "Invalid return type for constructor"

\* C13: in a typelib that gi_typelib_validate accepted, every method of a
\* local object or interface that has the constructor flag returns a complex
\* type whose type blob has tag interface; a constructor of an object that
\* returns int32 or int32[] is rejected with INVALID, the array with 'Invalid
\* return type ... for constructor'.
C13_ConstructorReturn ==
  /\ vres.st = "ok" =>
       \A f \in MethodOffsets :
         Bits(U16(M, f + 2), 3, 1) = 1 => ReturnsInterface(U32(M, f + 12))
  /\ mut.kind = "return" /\ Validated => vres.st = "error" /\ vres.code = "INVALID"
  /\ mut.kind = "return" /\ mut.val = GI_TYPE_TAG_ARRAY /\ Validated =>
       vres.msg = ConstructorReturnMsg

\* the constructor of "O" returning int32[] was rejected by the return check
C13_Witness ==
  /\ mut.kind = "return" /\ mut.val = GI_TYPE_TAG_ARRAY
  /\ Validated /\ vres.msg = ConstructorReturnMsg

\* C14 as claimed: an object's constructor whose return type is the basic
\* type int32 fails validation with INVALID and the message 'Invalid return
\* type 'int32' for constructor ...'.
C14_Int32ReturnMessage ==
  mut.kind = "return" /\ mut.val = GI_TYPE_TAG_INT32 /\ Validated =>
    vres.st = "error" /\ vres.code = "INVALID" /\ vres.msg = ConstructorReturnMsg

\* C14 amended: an object's constructor whose return type is the basic type
\* int32 fails validation with INVALID, reported by get_type_blob as
\* 'Expected non-basic type but got 6' in the directory section, inside the
\* context of the object and the constructor; the 'Invalid return type'
\* check is not reached.
C14_Int32ReturnRejected ==
  mut.kind = "return" /\ mut.val = GI_TYPE_TAG_INT32 /\ Validated =>
    /\ vres.st = "error" /\ vres.code = "INVALID"
    /\ vres.msg = "Expected non-basic type but got"
    /\ vres.section = "directory"

\* the int32 constructor was validated and rejected
C14_Witness ==
  /\ mut.kind = "return" /\ mut.val = GI_TYPE_TAG_INT32
  /\ Validated /\ vres.st = "error" /\ vres.code = "INVALID"

\* the last call was the given lookup and it read inside the buffer only
Looked(op) == lres.st = "ok" /\ lres.op = op /\ ~lres.oob

\* the bytes of the string at offset o of the buffer, whose NUL is in it
BufString(o) ==
  LET z == CHOOSE z \in o..(Len(bytes) - 1) :
             bytes[z + 1] = 0 /\ \A i \in o..(z - 1) : bytes[i + 1] # 0
  IN [i \in 1..(z - o) |-> bytes[o + i]]

\* the elements of the comma-separated list str; the empty string is the
\* empty list
ListElements(str) ==
  {SubSeq(str, a, b) : <<a, b>> \in
     {ab \in (1..(Len(str) + 1)) \X (0..Len(str)) :
        /\ Len(str) > 0
        /\ ab[1] <= ab[2] + 1
        /\ ab[1] = 1 \/ str[ab[1] - 1] = 44
        /\ ab[2] = Len(str) \/ str[ab[2] + 1] = 44
        /\ \A k \in ab[1]..ab[2] : str[k] # 44}}

\* P is a prefix of name and the character of name after it is an uppercase
\* ASCII letter
PrefixThenUpper(P, name) ==
  /\ Len(P) < Len(name)
  /\ \A k \in 1..Len(P) : name[k] = P[k]
  /\ name[Len(P) + 1] \in 65..90

MatchesOp == "gi_typelib_matches_gtype_name_prefix"

\* C15: gi_typelib_matches_gtype_name_prefix returns true exactly when some
\* element P of the comma-separated c_prefix list is a prefix of the GType name
\* and the character after P in the name is an uppercase ASCII letter: with
\* c_prefix "Gdk,Gtk" true for "GdkWindow" and "GtkLabel", false for "GnomeFoo"
\* and "Gdk", and with c_prefix "G" false for "Gdk".
C15_PrefixMatch ==
  Looked(MatchesOp) =>
    /\ lres.ret = (\E P \in ListElements(BufString(hdr_c_prefix(M))) :
                     PrefixThenUpper(P, lres.arg))
    /\ base = "OB" /\ mut = NoMut =>
         lres.ret = (lres.arg \in {<<71, 100, 107, 79>>,
                                   <<71, 100, 107, 87, 105, 110, 100, 111, 119>>,
                                   <<71, 116, 107, 76, 97, 98, 101, 108>>})
    /\ base = "TY" /\ mut = NoMut => lres.ret = FALSE

\* "GtkLabel" matched the second element of "Gdk,Gtk"
C15_Witness ==
  /\ Looked(MatchesOp) /\ base = "OB" /\ mut = NoMut
  /\ lres.arg = <<71, 116, 107, 76, 97, 98, 101, 108>> /\ lres.ret = TRUE

\* the string at offset o of the buffer is name, NUL included
NameIs(o, name) ==
  /\ o + Len(name) < Len(bytes)
  /\ \A i \in 1..Len(name) : bytes[o + i] = name[i]
  /\ bytes[o + Len(name) + 1] = 0

\* the section table, read from header.sections, holds DIRECTORY_INDEX
\* before its END
HasDirIndex ==
  /\ hdr_sections(M) # 0
  /\ \E k \in 0..(Len(bytes) \div SizeofSection) :
       /\ U32(M, hdr_sections(M) + k * SizeofSection) = GI_SECTION_DIRECTORY_INDEX
       /\ \A j \in 0..(k - 1) :
            U32(M, hdr_sections(M) + j * SizeofSection)
              \notin {GI_SECTION_END, GI_SECTION_DIRECTORY_INDEX}

\* the indices of the local entries called name
LocalNamed(name) ==
  {i \in 1..hdr_n_local_entries(M) :
     NameIs(entry_name(M, gi_typelib_get_dir_entry(M, i)), name)}

\* what a scan of entries 1..n_local_entries returns for name
LinearScan(name) ==
  IF LocalNamed(name) = {} THEN NoEntry
  ELSE gi_typelib_get_dir_entry(M,
         CHOOSE i \in LocalNamed(name) : \A j \in LocalNamed(name) : i <= j)

ByNameOp == "gi_typelib_get_dir_entry_by_name"

\* C16: with no DIRECTORY_INDEX section, gi_typelib_get_dir_entry_by_name
\* returns the local entry of lowest index whose name equals the name asked
\* for, and NULL when there is none: "I", the name of entries 3 and 4, gives
\* entry 3, and "P", the name of a foreign entry only, gives NULL.
C16_LinearByName ==
  Looked(ByNameOp) /\ ~HasDirIndex =>
    /\ lres.ret = LinearScan(lres.arg)
    /\ base = "OB" /\ mut = NoMut /\ lres.arg = <<73>> =>
         lres.ret = hdr_directory(M) + 2 * SizeofDirEntry
    /\ base = "OB" /\ mut = NoMut /\ lres.arg = <<80>> => lres.ret = NoEntry

\* the lookup of "I" found the first of the two entries of that name
C16_Witness ==
  /\ Looked(ByNameOp) /\ ~HasDirIndex /\ base = "OB" /\ mut = NoMut
  /\ lres.arg = <<73>> /\ lres.ret = hdr_directory(M) + 2 * SizeofDirEntry
  /\ Cardinality(LocalNamed(<<73>>)) = 2

\* the entry the hashed branch compares: the one at index h(name) + 1
HashedEntry == gi_typelib_get_dir_entry(M, lres.index + 1)

\* with a DIRECTORY_INDEX section the call returns the entry at index
\* h(name) + 1 when that entry has the name, and NULL otherwise
HashedCandidateOnly ==
  Looked(ByNameOp) /\ HasDirIndex =>
    lres.ret = IF NameIs(entry_name(M, HashedEntry), lres.arg) THEN HashedEntry
               ELSE NoEntry

\* C17: with a DIRECTORY_INDEX section, gi_typelib_get_dir_entry_by_name
\* returns the entry at index h(name) + 1 if it has the name and NULL
\* otherwise, and so, for the name of a local entry, the entry a linear scan
\* of entries 1..n_local_entries returns.
C17_HashedAgreesWithLinear ==
  /\ HashedCandidateOnly
  /\ Looked(ByNameOp) /\ HasDirIndex /\ LocalNamed(lres.arg) # {} =>
       lres.ret = LinearScan(lres.arg)

\* C18: a buffer passes the basic header validation only if its attributes
\* offset is 0 exactly when its attribute count is 0; both a zero offset with
\* a positive count and a non-zero offset with a zero count are rejected with
\* INVALID_HEADER.
C18_AttributesIffCount ==
  /\ pc = "live" => ((hdr_attributes(M) = 0) <=> (hdr_n_attributes(M) = 0))
  /\ pc = "failed" /\ Len(bytes) >= SizeofHeader
       /\ ((hdr_attributes(M) = 0) # (hdr_n_attributes(M) = 0)) =>
       gerror.code = "INVALID_HEADER"

\* the half the code has: a zero attributes offset with a positive count
\* never passes the basic header validation
AttributesZeroCountPositive ==
  pc = "live" => ~(hdr_attributes(M) = 0 /\ hdr_n_attributes(M) > 0)

\* a non-zero attributes offset with a zero count passed the whole validation
AttributesNonZeroCountZero ==
  ~(Validated /\ vres.st = "ok" /\ hdr_attributes(M) # 0 /\ hdr_n_attributes(M) = 0)

\* the one byte changed is the byte holding the local flag of entry i
LocalFlagPoked(i) ==
  mut.kind = "poke" /\ mut.at = gi_typelib_get_dir_entry(M, i) + 2

\* what holds of the local positions of an accepted directory
LocalPositions ==
  vres.st = "ok" =>
    \A i \in 1..hdr_n_local_entries(M) :
      LET e == gi_typelib_get_dir_entry(M, i)
      IN /\ entry_local(M, e)
         /\ entry_blob_type(M, e) \in BLOB_TYPE_FUNCTION..BLOB_TYPE_UNION
         /\ is_aligned(entry_offset(M, e))

\* the entries after the local ones of an accepted directory are not local
ForeignPositions ==
  vres.st = "ok" =>
    \A i \in (hdr_n_local_entries(M) + 1)..hdr_n_entries(M) :
      ~entry_local(M, gi_typelib_get_dir_entry(M, i))

\* an entry at a local position with its local flag cleared is rejected
TooFewLocal ==
  \A i \in 1..hdr_n_local_entries(M) :
    Validated /\ LocalFlagPoked(i) /\ ~entry_local(M, gi_typelib_get_dir_entry(M, i)) =>
      /\ vres.st = "error" /\ vres.code = "INVALID_DIRECTORY"
      /\ vres.msg = "Too few local directory entries"

\* C19: in a typelib gi_typelib_validate accepts, entries 1..n_local_entries
\* are local, of a blob type in function..union and at a 4-byte aligned
\* offset, and the entries after them are not local and their offset is that
\* of a valid namespace identifier; a local entry at a foreign position is
\* rejected with 'Too many local directory entries' and a non-local entry at
\* a local position with 'Too few local directory entries', both
\* INVALID_DIRECTORY.
C19_DirectoryPartition ==
  /\ LocalPositions
  /\ ForeignPositions
  /\ vres.st = "ok" =>
       \A i \in (hdr_n_local_entries(M) + 1)..hdr_n_entries(M) :
         NameWellFormed(entry_offset(M, gi_typelib_get_dir_entry(M, i)))
  /\ TooFewLocal
  /\ \A i \in (hdr_n_local_entries(M) + 1)..hdr_n_entries(M) :
       Validated /\ LocalFlagPoked(i) /\ entry_local(M, gi_typelib_get_dir_entry(M, i)) =>
         /\ vres.st = "error" /\ vres.code = "INVALID_DIRECTORY"
         /\ vres.msg = "Too many local directory entries"

\* an accepted foreign entry can name the empty namespace
ForeignNamespaceWellFormed ==
  vres.st = "ok" =>
    \A i \in (hdr_n_local_entries(M) + 1)..hdr_n_entries(M) :
      NameWellFormed(entry_offset(M, gi_typelib_get_dir_entry(M, i)))

\* a local entry of blob type 0 at a foreign position is rejected for its type
TooManyLocalMessage ==
  \A i \in (hdr_n_local_entries(M) + 1)..hdr_n_entries(M) :
    Validated /\ LocalFlagPoked(i) /\ entry_local(M, gi_typelib_get_dir_entry(M, i)) =>
      vres.msg = "Too many local directory entries"

\* what the check damaged at each site of FaultSites reports: the error
\* gi_typelib_new_from_bytes returns for the checks of the basic header
\* validation ("load"), the one gi_typelib_validate returns for the others
FaultError ==
  << [section |-> "load", code |-> "INVALID_HEADER", msg |-> "Invalid magic header"],
     [section |-> "load", code |-> "INVALID_HEADER", msg |-> "Typelib version mismatch"],
     [section |-> "load", code |-> "INVALID_HEADER", msg |-> "Inconsistent entry counts"],
     [section |-> "load", code |-> "INVALID_HEADER", msg |-> "Typelib size does not match"],
     [section |-> "load", code |-> "INVALID_HEADER", msg |-> "Blob size mismatch"],
     [section |-> "load", code |-> "INVALID_HEADER", msg |-> "Misaligned directory"],
     [section |-> "load", code |-> "INVALID_HEADER", msg |-> "Misaligned attributes"],
     [section |-> "load", code |-> "INVALID_HEADER", msg |-> "Wrong number of attributes"],
     [section |-> "In header", code |-> "INVALID",
      msg |-> "The namespace contains invalid characters"],
     [section |-> "directory", code |-> "INVALID_BLOB", msg |-> "Not an interface"],
     [section |-> "directory", code |-> "INVALID",
      msg |-> "The field contains invalid characters"],
     [section |-> "directory", code |-> "INVALID",
      msg |-> "The property contains invalid characters"],
     [section |-> "directory", code |-> "INVALID",
      msg |-> "The function contains invalid characters"],
     [section |-> "directory", code |-> "INVALID_BLOB", msg |-> "Invalid signal run flags"],
     [section |-> "directory", code |-> "INVALID",
      msg |-> "The vfunc contains invalid characters"],
     [section |-> "directory", code |-> "INVALID",
      msg |-> "The constant contains invalid characters"],
     [section |-> "directory", code |-> "INVALID_ENTRY", msg |-> "Invalid blob type"],
     [section |-> "directory", code |-> "INVALID_BLOB",
      msg |-> "Invalid prerequisite index"],
     [section |-> "directory", code |-> "INVALID_DIRECTORY", msg |-> "Misaligned entry"],
     [section |-> "directory", code |-> "INVALID",
      msg |-> "The namespace contains invalid characters"],
     [section |-> "attributes", code |-> "INVALID", msg |-> "The buffer is too short"] >>

\* the entries of the directory that fail when validated on their own
FailingEntries ==
  {i \in 0..(hdr_n_entries(M) - 1) : validate_directory_entry(M, StartState, i).st # "ok"}

\* C20: the checks are made in one order (header: magic, major version,
\* entry counts, size, record sizes, directory alignment, attributes
\* alignment, attribute count, namespace; the entries by ascending index,
\* and in a record interfaces, fields, properties, methods, signals, vfuncs,
\* constants; the attributes) and the error returned is that of the first
\* check that fails: of two damaged places, the one checked first is
\* reported, and a directory error (of a run that read inside the buffer) is
\* that of the lowest failing entry.
C20_EarliestFailure ==
  /\ mut.kind = "faults" =>
       LET first == FaultError[mut.at]
       IN /\ pc = "failed" =>
               first.section = "load" /\ gerror = [code |-> first.code, msg |-> first.msg]
          /\ pc = "live" => first.section # "load"
          /\ Validated =>
               /\ vres.st = "error" /\ vres.code = first.code
               /\ vres.msg = first.msg /\ vres.section = first.section
  /\ ncalls = 1 /\ vres.st = "error" /\ vres.section = "directory" /\ ~vres.oob
       /\ ~(Len(bytes) < hdr_directory(M) + hdr_n_entries(M) * SizeofDirEntry) =>
       /\ FailingEntries # {}
       /\ LET alone == validate_directory_entry(M, StartState, Min(FailingEntries))
          IN vres.code = alone.code /\ vres.msg = alone.msg

\* the signal of entry 1 and the prerequisite of entry 3 are both damaged
\* and the signal is reported
C20_Witness ==
  /\ mut = [kind |-> "faults", at |-> 14, val |-> 18]
  /\ Validated /\ vres.msg = "Invalid signal run flags"
  /\ Cardinality(FailingEntries) = 2

\* the conditions of the basic header validation, read off the buffer
HeaderBasicAccepts ==
  /\ Len(bytes) >= SizeofHeader
  /\ \A i \in 1..MagicLen : bytes[i] = GI_IR_MAGIC[i]
  /\ bytes[17] = MajorVersion
  /\ hdr_n_local_entries(M) <= hdr_n_entries(M)
  /\ hdr_size(M) = Len(bytes)
  /\ BlobSizesMatch(M)
  /\ hdr_directory(M) % 4 = 0
  /\ hdr_attributes(M) % 4 = 0
  /\ ~(hdr_attributes(M) = 0 /\ hdr_n_attributes(M) > 0)

\* the messages validate_name reports for the namespace
NamespaceMessages ==
  {"Buffer is too short while looking up name", "The namespace is too long",
   "The namespace contains invalid characters"}

\* C21: gi_typelib_new_from_bytes returns a handle (reference count 1, one
\* new reference on the GBytes, no module, open_attempted false) exactly when
\* the basic header validation accepts the buffer, and NULL without taking a
\* reference otherwise; the namespace and the directory are not looked at,
\* and gi_typelib_validate on a handle fails in the header only for the
\* namespace name.
C21_NewFromBytes ==
  /\ Loaded => (pc = "live" <=> HeaderBasicAccepts)
  /\ pc = "live" =>
       /\ typelib = [ref_count |-> 1, modules |-> <<>>, open_attempted |-> FALSE]
       /\ gbytes = 2
       /\ owned[1] = 1
  /\ pc = "failed" => typelib = NULL /\ gbytes = 1 /\ gerror # NoError
  /\ Validated /\ vres.st = "error" /\ vres.section = "In header" =>
       vres.code = "INVALID" /\ vres.msg \in NamespaceMessages

\* a handle was made of a buffer whose namespace name the validation rejects
C21_Witness ==
  /\ pc = "live" /\ gbytes = 2 /\ typelib.ref_count = 1
  /\ Validated /\ vres.st = "error" /\ vres.section = "In header"
  /\ vres.msg = "The namespace contains invalid characters"

\* the directory entry index refers to
EntryAt(index) == gi_typelib_get_dir_entry(M, index)

\* C22: in a typelib gi_typelib_validate accepts, the non-zero gtype_struct
\* of every object is the index of a directory entry that is local and of
\* blob type struct; an object whose gtype_struct is the index of a foreign
\* entry, or of a local entry of another blob type, is rejected with
\* INVALID_BLOB.
C22_ObjectGTypeStruct ==
  vres.st = "ok" =>
    \A i \in LocalEntries(BLOB_TYPE_OBJECT) :
      LET gtype_struct == U16(M, BlobOf(i) + 18)
      IN gtype_struct # 0 =>
           /\ gtype_struct <= hdr_n_entries(M)
           /\ entry_local(M, EntryAt(gtype_struct))
           /\ entry_blob_type(M, EntryAt(gtype_struct)) = BLOB_TYPE_STRUCT

\* the half the code has: an accepted gtype_struct is never the index of a
\* local entry of another blob type than struct
GTypeStructLocalIsStruct ==
  vres.st = "ok" =>
    \A i \in LocalEntries(BLOB_TYPE_OBJECT) :
      LET gtype_struct == U16(M, BlobOf(i) + 18)
      IN gtype_struct # 0 =>
           /\ gtype_struct <= hdr_n_entries(M)
           /\ entry_local(M, EntryAt(gtype_struct)) =>
                entry_blob_type(M, EntryAt(gtype_struct)) = BLOB_TYPE_STRUCT

\* index is the index of an entry that is foreign or of a blob type in types
ForeignOrOfType(index, types) ==
  /\ index \in 1..hdr_n_entries(M)
  /\ \/ ~entry_local(M, EntryAt(index))
     \/ entry_blob_type(M, EntryAt(index)) \in types

\* index is the index of an entry of a blob type in types, or of a foreign
\* entry that carries no blob type
UnresolvedOrOfType(index, types) ==
  /\ index \in 1..hdr_n_entries(M)
  /\ \/ ~entry_local(M, EntryAt(index)) /\ entry_blob_type(M, EntryAt(index)) = BLOB_TYPE_INVALID
     \/ entry_blob_type(M, EntryAt(index)) \in types

\* the parent and the interfaces of every local object and the prerequisites
\* of every local interface are as Accepts requires
ReferencesAre(Accepts(_, _)) ==
  /\ \A i \in LocalEntries(BLOB_TYPE_OBJECT) :
       /\ U16(M, BlobOf(i) + 16) # 0 => Accepts(U16(M, BlobOf(i) + 16), {BLOB_TYPE_OBJECT})
       /\ \A k \in 0..(U16(M, BlobOf(i) + 20) - 1) :
            Accepts(U16(M, BlobOf(i) + SizeofObjectBlob + 2 * k), {BLOB_TYPE_INTERFACE})
  /\ \A i \in LocalEntries(BLOB_TYPE_INTERFACE) :
       \A k \in 0..(U16(M, BlobOf(i) + 18) - 1) :
         Accepts(U16(M, BlobOf(i) + SizeofInterfaceBlob + 2 * k),
                 {BLOB_TYPE_INTERFACE, BLOB_TYPE_OBJECT})

\* the gtype_struct of every local object passes the test made of it
GTypeStructsPass ==
  \A i \in LocalEntries(BLOB_TYPE_OBJECT) :
    LET gtype_struct == U16(M, BlobOf(i) + 18)
    IN gtype_struct # 0 =>
         /\ gtype_struct <= hdr_n_entries(M)
         /\ ~(entry_local(M, EntryAt(gtype_struct))
              /\ entry_blob_type(M, EntryAt(gtype_struct)) # BLOB_TYPE_STRUCT)

\* TypelibOB with one directory index and the foreign entry's blob type
\* replaced has been validated
Referred == mut.kind = "refer" /\ Validated

\* C23 as stated: a parent, interface or prerequisite index is accepted
\* exactly when the entry is foreign, whatever its blob type, or of the blob
\* type asked for.
C23_ForeignWhateverType ==
  /\ vres.st = "ok" => ReferencesAre(ForeignOrOfType)
  /\ Referred /\ GTypeStructsPass =>
       (vres.st = "ok" <=> ReferencesAre(ForeignOrOfType))

\* C23: a parent index is accepted exactly when the entry has blob type
\* object or is foreign with blob type 0, an interface-list index when it has
\* blob type interface or is foreign with blob type 0, a prerequisite when it
\* has blob type interface or object or is foreign with blob type 0; a
\* foreign entry that carries another blob type is rejected with
\* INVALID_BLOB.
C23_ReferenceTypes ==
  /\ vres.st = "ok" => ReferencesAre(UnresolvedOrOfType)
  /\ Referred /\ GTypeStructsPass =>
       /\ vres.st = "ok" <=> ReferencesAre(UnresolvedOrOfType)
       /\ vres.st # "ok" => vres.st = "error" /\ vres.code = "INVALID_BLOB"

\* the parent of "O" is the foreign entry, which carries blob type struct,
\* and the typelib is rejected
C23_Witness ==
  /\ Referred /\ mut.at = 188 /\ mut.val = 5
  /\ ~entry_local(M, EntryAt(5)) /\ entry_blob_type(M, EntryAt(5)) = BLOB_TYPE_STRUCT
  /\ vres.st = "error" /\ vres.msg = "Parent not object"

\* what pop_context's assertion reports when it fails
PopAssertion == "assertion failed: context_stack != NULL"

\* C24: the context stack is balanced: it is empty when gi_typelib_validate
\* returns success, it has the depth it had before after every directory
\* entry validated with success, and pop_context never finds it empty.
C24_ContextBalanced ==
  Validated =>
    /\ vres.st = "ok" => vres.ctx = <<>>
    /\ vres.msg # PopAssertion
    /\ ncalls = 1 =>
         \A i \in 0..(hdr_n_entries(M) - 1) :
           LET after == validate_directory_entry(M, StartState, i)
           IN /\ after.st = "ok" => after.ctx = StartState.ctx
              /\ after.msg # PopAssertion

\* TypelibOB, where the names of an object, of its callback, method and
\* signal, of a struct and of an interface are pushed, was accepted with
\* the stack empty
C24_Witness ==
  /\ base = "OB" /\ mut = NoMut /\ Validated /\ vres.st = "ok" /\ vres.ctx = <<>>
  /\ LocalEntries(BLOB_TYPE_OBJECT) # {} /\ LocalEntries(BLOB_TYPE_INTERFACE) # {}
  /\ \E o \in MethodOffsets : TRUE

\* "In ", " (Context: " and "): " as bytes
TextIn == <<73, 110, 32>>
TextContext == <<32, 40, 67, 111, 110, 116, 101, 120, 116, 58, 32>>
TextEnd == <<41, 58, 32>>

\* the names of path joined by '/', first to last
RECURSIVE JoinPath(_)
JoinPath(path) ==
  IF Len(path) <= 1 THEN (IF path = <<>> THEN <<>> ELSE path[1])
  ELSE path[1] \o <<47>> \o JoinPath(Tail(path))

\* the names on the stack from the outermost to the innermost (the stack
\* holds the innermost first)
OutermostFirst(ctx) == [i \in 1..Len(ctx) |-> ctx[Len(ctx) + 1 - i]]

\* C25: the message of a failure inside nested records is prefixed with the
\* section label and the context path from the outermost name to the
\* innermost, joined by '/': "In directory (Context: O/f): "; with an empty
\* stack the section label only is prefixed.
C25_ContextPrefix ==
  Validated /\ vres.st = "error" =>
    IF vres.ctx = <<>>
      THEN vres.prefix = TextIn \o section_text(vres.section) \o <<58>>
      ELSE vres.prefix = TextIn \o section_text(vres.section) \o TextContext
                           \o JoinPath(OutermostFirst(vres.ctx)) \o TextEnd

\* with an empty stack the prefix is "In " section ":"
EmptyContextPrefix ==
  Validated /\ vres.st = "error" /\ vres.ctx = <<>> =>
    vres.prefix = TextIn \o section_text(vres.section) \o <<58>>

\* a failure in method "new" of object "O" is prefixed with
\* "In directory (Context: new/O)): "
NestedContextPrefix ==
  Validated /\ vres.st = "error" /\ vres.ctx = <<<<110, 101, 119>>, <<79>>>> =>
    vres.prefix = TextIn \o section_text("directory") \o TextContext
                    \o <<110, 101, 119, 47, 79, 41>> \o TextEnd

\* a failure inside method "new" of object "O" was reported
NestedFailure ==
  /\ Validated /\ vres.st = "error" /\ mut = [kind |-> "return", at |-> 368, val |-> GI_TYPE_TAG_INT32]
  /\ vres.ctx = <<<<110, 101, 119>>, <<79>>>>
  /\ vres.prefix = TextIn \o section_text("directory") \o TextContext
                     \o <<110, 101, 119, 47, 79, 41>> \o TextEnd

\* the references the holders own, added up
RECURSIVE OwnedBy(_)
OwnedBy(hs) ==
  IF hs = {} THEN 0
  ELSE LET h == CHOOSE x \in hs : TRUE IN owned[h] + OwnedBy(hs \ {h})

\* some holder is past the decrement that returned TRUE and has not freed yet
Releasing == \E h \in Holders : upc[h] = "release"

\* the handle is released once, at the unref that finds no reference left
ReleasedOnce ==
  /\ nfreed <= 1
  /\ Releasing => typelib.ref_count = 0 /\ OwnedBy(Holders) = 0 /\ nfreed = 0
  /\ Cardinality({h \in Holders : upc[h] = "release"}) <= 1
  /\ nfreed = 1 =>
       /\ typelib.ref_count = 0 /\ OwnedBy(Holders) = 0
       /\ gbytes = 1 /\ closed = typelib.modules
  /\ pc = "live" /\ nfreed = 0 =>
       /\ gbytes = 2 /\ closed = <<>>
       /\ typelib.ref_count = OwnedBy(Holders)
       /\ ~Releasing => typelib.ref_count >= 1

\* C26: whatever the order of the gi_typelib_ref and gi_typelib_unref calls
\* of the holders, each unref giving up a reference its holder owns, the
\* handle drops its GBytes reference, closes every module it opened and
\* frees itself once, at the unref that brings the count to zero and never
\* while a holder owns a reference; the data and the length of a handle
\* never change.
C26_ReleasedOnce == [](ReleasedOnce) /\ [][pc = "live" => bytes' = bytes]_vars

\* the handle was freed after it had opened two modules, and both are closed
C26_Witness ==
  /\ nfreed = 1 /\ gbytes = 1 /\ typelib.ref_count = 0
  /\ Len(typelib.modules) = 2 /\ closed = typelib.modules

\* the module at place k is the first of the list that defines the symbol
FirstMatch(modules, symbol_name, k) ==
  /\ k \in 1..Len(modules)
  /\ symbol_name \in ModuleSymbols(modules[k])
  /\ \A j \in 1..(k - 1) : symbol_name \notin ModuleSymbols(modules[j])

\* what the calls of gi_typelib_symbol made so far have left
OpenedOnce ==
  /\ dlopens <= 1
  /\ nsymbols = 0 => dlopens = 0
  /\ pc = "live" /\ nsymbols = 0 => ~typelib.open_attempted /\ typelib.modules = <<>>
  /\ nsymbols >= 1 => dlopens = 1 /\ typelib.open_attempted
  /\ sres.st = "ok" =>
       /\ sres.ret <=> \E k \in 1..Len(typelib.modules) :
                         sres.symbol_name \in ModuleSymbols(typelib.modules[k])
       /\ sres.ret => FirstMatch(typelib.modules, sres.symbol_name, sres.found)

\* C30: over the calls of gi_typelib_symbol made one after the other on a
\* handle, the shared libraries are opened once at most, in the first call;
\* open_attempted stays true and no later call opens again, not even when
\* the first attempt loaded no module; each call returns the match of the
\* first module of the list that has the symbol, FALSE when none has it.
C30_OpenedOnce ==
  /\ [](OpenedOnce)
  /\ [][pc = "live" /\ typelib.open_attempted =>
          /\ typelib'.open_attempted
          /\ typelib'.modules = typelib.modules
          /\ dlopens' = dlopens]_vars

\* a second call on a handle whose first attempt loaded no module
C30_Witness ==
  /\ nsymbols = 2 /\ dlopens = 1
  /\ typelib.open_attempted /\ typelib.modules = <<>>
  /\ sres.st = "ok" /\ ~sres.ret

\* a call answered by the second module of the list
SecondModuleMatch ==
  ~(nsymbols = 2 /\ Len(typelib.modules) = 2 /\ sres.st = "ok" /\ sres.found = 2)

\* the input is TypelibST with the method "new" set up in a container
MethodIn(containers) == base = "ST" /\ mut.kind = "method" /\ mut.at \in containers

\* the method "new" of TypelibST has the constructor flag
MethodIsConstructor == fn_constructor(Mem(bytes, beyond), 156)

\* C27: a function with the constructor flag in a struct, boxed or union
\* container validates for every valid return type, basic (void, int32) or
\* complex, as the same function without the flag does: the return type of a
\* constructor is checked inside object and interface only.
C27_ConstructorReturnAnyType ==
  MethodIn(MethodContainers) /\ Validated => vres.st = "ok"

\* what the code does: the function without the flag validates with every
\* return type, and so does the constructor that returns a complex type or
\* is in a union; the constructor of a struct or boxed that returns a basic
\* type is rejected by the chase of its return type
StructConstructorBasicReturn ==
  MethodIn(MethodContainers) /\ Validated =>
    IF MethodIsConstructor /\ mut.at # BLOB_TYPE_UNION
         /\ mut.val \in {GI_TYPE_TAG_VOID, GI_TYPE_TAG_INT32}
      THEN /\ vres.st = "error" /\ vres.code = "INVALID"
           /\ vres.msg = IF mut.val = GI_TYPE_TAG_VOID
                           THEN "No return type found in signature"
                           ELSE "Expected non-basic type but got"
      ELSE vres.st = "ok"

\* a constructor that returns an array validated in a boxed container
BoxedConstructorArray ==
  /\ MethodIn({BLOB_TYPE_BOXED}) /\ MethodIsConstructor /\ mut.val = GI_TYPE_TAG_ARRAY
  /\ Validated /\ vres.st = "ok"

\* the blob_type stored in the record of directory entry i
RecordBlobType(i) == U16(M, BlobOf(i))

\* C28: in a typelib gi_typelib_validate accepts, the blob_type of every
\* local directory entry is the blob_type stored in the record at the
\* offset of the entry, so a lookup that selects on the tag of the entry
\* reads a record that was validated as that kind.
C28_EntryTagIsRecordTag ==
  pc = "live" /\ Validated /\ vres.st = "ok" /\ ~vres.oob =>
    \A i \in 1..hdr_n_local_entries(M) :
      entry_blob_type(M, EntryAt(i)) = RecordBlobType(i)

\* what the code does: the record of a local entry is validated as the kind
\* its own blob_type names, and the tag of the entry is only kept in range
RecordValidatedByOwnTag ==
  pc = "live" /\ Validated /\ vres.st = "ok" /\ ~vres.oob =>
    \A i \in 1..hdr_n_local_entries(M) :
      /\ RecordBlobType(i) \in BLOB_TYPE_FUNCTION..BLOB_TYPE_UNION
      /\ entry_blob_type(M, EntryAt(i)) \in BLOB_TYPE_FUNCTION..BLOB_TYPE_UNION

\* the ConstantBlob of object "O" of TypelibOB, where the input leaves the
\* records before it as they are
ConstantRecord == 336

ConstantInput ==
  /\ base = "OB"
  /\ mut = NoMut \/ (mut.kind = "poke" /\ mut.at \in ConstantRecord..(ConstantRecord + 23))

\* ConstantBlob.size and ConstantBlob.offset of the record
ConstantSize == U32(M, ConstantRecord + 12)
ConstantOffset == U32(M, ConstantRecord + 16)

\* C29: the value of every constant record of a typelib gi_typelib_validate
\* accepts lies inside the buffer: its offset is 4-byte aligned and offset +
\* size <= length, and the size is the width of the type for the basic types
\* of fixed width.
C29_ConstantValueInside ==
  ConstantInput /\ pc = "live" /\ Validated /\ vres.st = "ok" /\ ~vres.oob =>
    /\ ConstantOffset % 4 = 0
    /\ ConstantOffset + ConstantSize <= Len(bytes)
    /\ simple_is_basic(M, ConstantRecord + 8)
         /\ value_size(simple_tag(M, ConstantRecord + 8)) # 0 =>
         ConstantSize = value_size(simple_tag(M, ConstantRecord + 8))

\* what the code does: the offset is aligned and the size is the width of
\* the type; where the value ends is not compared with the length
ConstantAlignedAndSized ==
  ConstantInput /\ pc = "live" /\ Validated /\ vres.st = "ok" /\ ~vres.oob =>
    /\ ConstantOffset % 4 = 0
    /\ simple_is_basic(M, ConstantRecord + 8)
         /\ value_size(simple_tag(M, ConstantRecord + 8)) # 0 =>
         ConstantSize = value_size(simple_tag(M, ConstantRecord + 8))

\* a constant accepted with a value that starts after the end of the buffer
ConstantValueOutside ==
  /\ ConstantInput /\ pc = "live" /\ Validated /\ vres.st = "ok"
  /\ ConstantOffset >= Len(bytes)

====
